---------------------------- MODULE Spec2Model ----------------------------
(***************************************************************************)
(* A model of the third-party build driver yb_build_thirdparty_main.py:    *)
(* the Builder (argument handling, the sequence of build types, the        *)
(* per-dependency rebuild decision, fetch and stamp), and the files it     *)
(* keeps on disk between runs (stamp files, source directories, patchlevel *)
(* markers, archives, build directories).                                  *)
(*                                                                         *)
(* One behaviour is a sequence of runs of main() on one machine.  What the *)
(* driver cannot decide itself (whether curl, tar, patch, rsync, git or a  *)
(* dependency's build succeed) is chosen nondeterministically.             *)
(***************************************************************************)
EXTENDS Integers, Sequences, FiniteSets, TLC

\* Python's None, for a value that is otherwise a string and for one that is
\* otherwise a tuple.
None == "None"
NoValue == << >>

---------------------------------------------------------------------------
(* build_definitions: build types and build groups                         *)

BUILD_TYPE_COMMON == "common"
BUILD_TYPE_UNINSTRUMENTED == "uninstrumented"
BUILD_TYPE_CLANG_UNINSTRUMENTED == "clang_uninstrumented"
BUILD_TYPE_ASAN == "asan"
BUILD_TYPE_TSAN == "tsan"

BUILD_TYPES ==
    << BUILD_TYPE_COMMON, BUILD_TYPE_UNINSTRUMENTED, BUILD_TYPE_CLANG_UNINSTRUMENTED,
       BUILD_TYPE_ASAN, BUILD_TYPE_TSAN >>

BuildTypeSet == { BUILD_TYPES[i] : i \in 1..Len(BUILD_TYPES) }

BUILD_GROUP_COMMON == "group_common"
BUILD_GROUP_INSTRUMENTED == "group_instrumented"

Platforms == { "linux", "mac", "other" }

---------------------------------------------------------------------------
(* The dependency registry.  Three of the registered dependencies, in      *)
(* registry order: one of the common group and two instrumented ones.      *)

dependencies == << "openssl", "abseil", "tcmalloc" >>

DepNames == { dependencies[i] : i \in 1..Len(dependencies) }

build_group(dep) ==
    CASE dep = "openssl"  -> BUILD_GROUP_COMMON
      [] dep = "abseil"   -> BUILD_GROUP_INSTRUMENTED
      [] dep = "tcmalloc" -> BUILD_GROUP_INSTRUMENTED

copy_sources(dep) ==
    CASE dep = "openssl"  -> TRUE
      [] dep = "abseil"   -> FALSE
      [] dep = "tcmalloc" -> FALSE

\* Dependency.should_build: the default predicate, not overridden by these three.
should_build(dep, bt) == TRUE

\* Dependency.name, as a path component.
name(dep) == << dep >>

\* Dependency.dir_name is set for every registered dependency ('<name>-<version>').
dir_name(dep) == << dep, "version" >>

\* Dependency.archive_name: None when the URL names no known archive type.
archive_name(dep) == << dep, "archive" >>

\* Dependency.download_url ('mkdir' asks for an empty source directory).
download_url(dep) == << "https", dep >>

\* '{}'.format(dependency): the dependency object itself is formatted.  The
\* dependency classes define no __str__ or __format__, so this is Python's
\* representation of the object, which is not the dependency's name.
format_dependency(dep) == << "object", dep >>

---------------------------------------------------------------------------
(* The version-control state of the files that enter a build stamp.        *)

MAIN_PY == << "yb_build_thirdparty_main.py" >>
BUILD_SH == << "build_thirdparty.sh" >>

definition_file(dep) == << "build_definitions", dep >>

TrackedFiles == { MAIN_PY, BUILD_SH } \cup { definition_file(d) : d \in DepNames }

\* Bounds of the version-control model: file contents are 0..MaxContent, commit
\* identifiers are 1..MaxCommit.
MaxContent == 1
MaxCommit == 2

Contents == 0..MaxContent
\* The content of a file that is not there.
Missing == MaxContent + 1

VARIABLES
    platform,               \* what is_linux() / is_mac() report
    cmdline,                \* the options this machine runs the driver with (--clean aside)
    git,                    \* head, index, work tree and history of the tracked files
    git_ops,                \* how many changes the developer has made to it
    saved_git,              \* per stamp file, the version-control state it was saved in
    stamp_file,             \* build/<build type>/.build-stamp-<name>: contents or NoValue
    src_dir,                \* src/<dir_name> exists
    patchlevel_file,        \* src/<dir_name>/patchlevel-<patch_version> exists
    archive,                \* download/<archive_name>: "absent", "good" or "bad"
    build_dir,              \* build/<build type>/<dir_name> exists
    args,                   \* the parsed command line of the current run
    selected_dependencies,  \* Builder.selected_dependencies
    pc,                     \* where main() is
    run_step,               \* which of run()'s build() calls comes next
    build_type,             \* Builder.build_type
    dep_index,              \* position of build()'s loop over selected_dependencies
    entered,                \* build types entered by this run, in order
    invoked,                \* adapter invocations of this run: << dep, build type >>
    error,                  \* why the run ended in an error, or None
    last                    \* what the step just taken did, when it was a call of interest

\* One dependency's download_dependency, step by step.
VARIABLES
    fpc,                    \* where download_dependency / ensure_file_downloaded is
    dep_desc,               \* the attributes of the dependency, and --add_checksum
    filename2checksum,      \* Builder.filename2checksum
    manifest,               \* the lines of thirdparty_src_checksums.txt
    download_dir,           \* download/<file name>: the content of the file, or Absent
    src_tree,               \* src/<dir_name>: what is in it
    call,                   \* the ensure_file_downloaded call in progress, or the last one
    pass_events,            \* what this pass of download_dependency has done, in order
    last_lookup             \* the get_expected_checksum call of the step just taken

\* One call of extract_archive, step by step.
VARIABLES
    xpc,                    \* where extract_archive is
    xin,                    \* its arguments, and what the archive holds
    tmp_out_dir,            \* the temporary directory: "none", "foreign", "empty", "unpacked"
    out_dir,                \* what is in out_dir under each name: "none", "old", "moved"
    xresult,                \* how the call ends: a return or the error raised
    xevents                 \* what the call has done to the file system, in order

\* One call of good_libs, for a file and what the tool prints for it.
VARIABLES
    lpc,                    \* "idle" before the call, "done" after it
    lin,                    \* the classes in use, the file, and what the tool does
    lresult                 \* what good_libs returns: "good", "bad", or "raised"

\* LibTestBase.run, file by file.
VARIABLES
    apc,                    \* where the audit is
    installed_files,        \* the files under the installed directories
    inspected,              \* the files good_libs was called for and returned
    test_pass,              \* the test_pass of run
    aresult                 \* how the audit ended, once it has

\* The choice of the compilers: CompilerChoice, and the same methods of Builder.
VARIABLES
    choice,                 \* the class in use, its constructor arguments, the environment
    compiler_fs,            \* what the bin directory of each root holds
    linuxbrew_dir,          \* linuxbrew_dir: "unset" before detect_linuxbrew
    compiler_type,          \* compiler_type
    cc,                     \* cc: a path or NoPath
    cxx,                    \* cxx: a path or NoPath
    environ,                \* os.environ: what the methods export
    ccall                   \* the call just made and how it ended

\* The flags of the build type entered: init_flags, setup_compiler, build_dependency.
VARIABLES
    flags,                  \* the lists of flags of Builder
    flags_environ           \* CXXFLAGS, CFLAGS and the rest, as last exported, and for what

fs_vars == << stamp_file, src_dir, patchlevel_file, archive, build_dir >>
run_vars == << args, selected_dependencies, pc, run_step, build_type, dep_index,
               entered, invoked, error >>
env_vars == << platform, cmdline, git, git_ops >>
build_vars == << env_vars, fs_vars, run_vars, saved_git, last >>
fetch_vars == << fpc, dep_desc, filename2checksum, manifest, download_dir, src_tree, call,
                 pass_events, last_lookup >>
extract_vars == << xpc, xin, tmp_out_dir, out_dir, xresult, xevents >>
lib_vars == << lpc, lin, lresult >>
audit_vars == << apc, installed_files, inspected, test_pass, aresult >>
compiler_vars == << choice, compiler_fs, linuxbrew_dir, compiler_type, cc, cxx, environ,
                    ccall >>
flag_vars == << flags, flags_environ >>
more_vars == << lib_vars, audit_vars, compiler_vars, flag_vars >>
other_vars == << fetch_vars, extract_vars, more_vars >>
vars == << build_vars, fetch_vars, extract_vars, more_vars >>

is_linux == platform = "linux"
is_mac == platform = "mac"

Range(s) == { s[i] : i \in 1..Len(s) }

Max(S) == CHOOSE x \in S : \A y \in S : y <= x

---------------------------------------------------------------------------
(* Build stamps                                                            *)

\* hashlib.sha256(...).hexdigest(): distinct inputs give distinct digests.
sha256(x) == << "sha256", x >>

input_files_for_stamp(dep) == { MAIN_PY, BUILD_SH, definition_file(dep) }

\* The existence check of get_build_stamp_for_dependency (a missing file is fatal).
stamp_inputs_exist(g, dep) ==
    \A f \in input_files_for_stamp(dep) : g.work[f] # Missing

\* git log --pretty=%H -n 1 <files>: the newest commit that touched one of them.
git_log_n1(g, files) == Max({ g.log[f] : f \in files })

\* git diff <files>: work tree against index, for the files that differ.
git_diff(g, files) ==
    { << f, g.index[f], g.work[f] >> : f \in { x \in files : g.index[x] # g.work[x] } }

\* git diff --cached <files>: index against HEAD, for the files that differ.
git_diff_cached(g, files) ==
    { << f, g.head[f], g.index[f] >> : f \in { x \in files : g.head[x] # g.index[x] } }

\* A stamp that leaves out the diff of the work tree.
get_build_stamp_without_diff(g, dep) ==
    << git_log_n1(g, input_files_for_stamp(dep)),
       sha256({}),
       sha256(git_diff_cached(g, input_files_for_stamp(dep))) >>

\* Lines 871-894: the commit of git log, and the digests of the two diffs.
get_build_stamp_for_dependency(g, dep) ==
    << git_log_n1(g, input_files_for_stamp(dep)),
       sha256(git_diff(g, input_files_for_stamp(dep))),
       sha256(git_diff_cached(g, input_files_for_stamp(dep))) >>

\* A should_rebuild_dependency that does not look for the source directory.
should_rebuild_stamps_only(g, stamps, src, dep, bt) ==
    stamps[<< bt, dep >>] # get_build_stamp_for_dependency(g, dep)

\* A should_rebuild_dependency that answers False as soon as a stamp file is there.
should_rebuild_stamp_missing(g, stamps, src, dep, bt) ==
    IF dir_name(dep) # NoValue /\ ~src[dep]
    THEN TRUE
    ELSE stamps[<< bt, dep >>] = NoValue

\* A should_rebuild_dependency that is satisfied by the stamp file of any build type.
should_rebuild_any_build_type(g, stamps, src, dep, bt) ==
    IF dir_name(dep) # NoValue /\ ~src[dep]
    THEN TRUE
    ELSE \A t \in DOMAIN stamps :
             t[2] = dep => stamps[t] # get_build_stamp_for_dependency(g, dep)

\* A should_rebuild_dependency that never takes a stamp file for current.
should_rebuild_always(g, stamps, src, dep, bt) == TRUE

\* Lines 838-863: the return value of should_rebuild_dependency in build type bt,
\* once the stamp could be computed.
should_rebuild_dependency(g, stamps, src, dep, bt) ==
    LET old_build_stamp == stamps[<< bt, dep >>]
        new_build_stamp == get_build_stamp_for_dependency(g, dep)
    IN  IF dir_name(dep) # NoValue /\ ~src[dep]
        THEN TRUE
        ELSE IF old_build_stamp = new_build_stamp THEN FALSE ELSE TRUE

---------------------------------------------------------------------------
(* Builder.init: the command line and the selection                        *)

\* Bound on the length of the positional dependency list and of the --skip list.
MaxArgList == 1

\* Names that can be given on the command line: the registered ones and one that is
\* not registered.
ArgNames == DepNames \cup { "nosuch" }

ArgLists == UNION { [1..n -> ArgNames] : n \in 0..MaxArgList }

SelectInOrder(keep(_)) == SelectSeq(dependencies, keep)

\* An init that takes the list of dependencies as the selection, as it is given.
init_selection_as_listed(arg_dependencies, arg_skip) ==
    IF arg_dependencies # << >> /\ arg_skip # << >>
    THEN [ok |-> FALSE, selected |-> << >>]
    ELSE IF arg_dependencies # << >>
    THEN [ok |-> Range(arg_dependencies) \subseteq DepNames, selected |-> arg_dependencies]
    ELSE [ok |-> Range(arg_skip) \subseteq DepNames,
          selected |-> LET not_skipped(d) == d \notin Range(arg_skip)
                       IN  SelectInOrder(not_skipped)]

\* An init that checks nothing: names that are not registered are passed over, and
\* the list of dependencies wins over --skip.
init_selection_lenient(arg_dependencies, arg_skip) ==
    IF arg_dependencies # << >>
    THEN [ok |-> TRUE,
          selected |-> LET in_list(d) == d \in Range(arg_dependencies)
                       IN  SelectInOrder(in_list)]
    ELSE [ok |-> TRUE,
          selected |-> LET not_skipped(d) == d \notin Range(arg_skip)
                       IN  SelectInOrder(not_skipped)]

\* Lines 210-234: the selection, or the error that ends init.
init_selection(arg_dependencies, arg_skip) ==
    IF arg_dependencies # << >> /\ arg_skip # << >>
    THEN [ok |-> FALSE, selected |-> << >>]
    ELSE IF arg_dependencies # << >>
    THEN IF \E i \in 1..Len(arg_dependencies) : arg_dependencies[i] \notin DepNames
         THEN [ok |-> FALSE, selected |-> << >>]
         ELSE [ok |-> TRUE,
               selected |-> LET in_list(d) == d \in Range(arg_dependencies)
                            IN  SelectInOrder(in_list)]
    ELSE IF arg_skip # << >>
    THEN IF Range(arg_skip) \ DepNames # {}
         THEN [ok |-> FALSE, selected |-> << >>]
         ELSE [ok |-> TRUE,
               selected |-> LET not_skipped(d) == d \notin Range(arg_skip)
                            IN  SelectInOrder(not_skipped)]
    ELSE [ok |-> TRUE, selected |-> dependencies]

NoArgs == [build_type |-> None, skip_sanitizers |-> FALSE, clean |-> FALSE]

NoCall == [op |-> "none"]

---------------------------------------------------------------------------
(* The download directory, the checksum file and the source tree            *)

\* Bounds: a dependency has up to MaxExtras extra downloads and MaxPatches patches;
\* a downloaded file holds one of the contents 1..MaxBlob.
MaxExtras == 1
MaxPatches == 2
MaxBlob == 2
MaxEntries == 2

\* os.path.exists(path) is False.
Absent == 0
Blobs == 1..MaxBlob
\* What the upstream server holds for every file; any other content is a damaged or
\* a replaced download.
Genuine == 1

\* File names in the download directory: the dependency's archive, the archives of
\* its extra downloads, and the archive of some other dependency.
ARCHIVE == << "archive" >>
OTHER_ARCHIVE == << "other" >>
extra_archive(i) == << "extra", i >>
Filenames == { ARCHIVE, OTHER_ARCHIVE } \cup { extra_archive(i) : i \in 1..MaxExtras }

compute_file_sha256(content) == sha256(content)

\* A line of the checksum file: << "#" >> is a comment, << sum, fname, ws >> an entry
\* followed by the white space ws.
entry_line(sum, fname, ws) == << sum, fname, ws >>
is_entry(line) == Len(line) = 3

\* Lines 433-449: the file names and checksums of the lines read so far; a later
\* line for a file name replaces an earlier one.
RECURSIVE load_expected_checksums(_)
load_expected_checksums(lines) ==
    IF lines = << >>
    THEN [f \in Filenames |-> NoValue]
    ELSE LET before == load_expected_checksums(SubSeq(lines, 1, Len(lines) - 1))
             line == lines[Len(lines)]
         IN  IF is_entry(line) THEN [before EXCEPT ![line[2]] = line[1]] ELSE before

\* The checksum file as it is checked out: a comment, the entry of another
\* dependency's archive (with white space at the end of the line), the entries of
\* the extra downloads and, when registered, the entry of the dependency's archive.
checksum_file(registered) ==
    << << "#" >>, entry_line(compute_file_sha256(Genuine), OTHER_ARCHIVE, " ") >>
    \o [i \in 1..MaxExtras |-> entry_line(compute_file_sha256(Genuine), extra_archive(i), "")]
    \o (IF registered
        THEN << entry_line(compute_file_sha256(Genuine), ARCHIVE, "") >>
        ELSE << >>)

\* A source directory that is not there, and an ensure_file_downloaded call and a
\* checksum lookup that were not made.
NoTree ==
    [exists |-> FALSE, main |-> Absent, extras |-> {}, patches |-> << >>,
     post_patch |-> FALSE, patchlevel |-> FALSE]
NoEnsure ==
    [filename |-> NoValue, entry |-> Absent, again |-> FALSE, attempt_index |-> 0,
     sleep_time_sec |-> 0, events |-> << >>]
NoLookup == [filename |-> NoValue]

\* The attributes of a dependency that download_dependency reads, with --add_checksum.
Descriptors ==
    [url : {"url", "mkdir"}, archive_name : BOOLEAN, extra_downloads : 0..MaxExtras,
     patches : 0..MaxPatches, post_patch : BOOLEAN, add_checksum : BOOLEAN]

FetchAtRest ==
    /\ fpc = "idle"
    /\ dep_desc = [url |-> "url", archive_name |-> TRUE, extra_downloads |-> 0,
                   patches |-> 0, post_patch |-> FALSE, add_checksum |-> FALSE]
    /\ manifest = checksum_file(TRUE)
    /\ filename2checksum = load_expected_checksums(checksum_file(TRUE))
    /\ download_dir = [f \in Filenames |-> Absent]
    /\ src_tree = NoTree
    /\ call = NoEnsure
    /\ pass_events = << >>
    /\ last_lookup = NoLookup

\* The names that out_name and the directory of an archive can have, and the
\* out_name that a call is given when it is given one.
EntryNames == { "foo-1.0", "foo" }
OUT_NAME == "foo"

\* extract_archive is not running.
NoExtract ==
    [out_name |-> FALSE, known_type |-> TRUE, command_fails |-> FALSE,
     dirs |-> 1, files |-> 0, hidden |-> FALSE, subdir |-> "foo-1.0"]

ExtractAtRest ==
    /\ xpc = "idle"
    /\ xin = NoExtract
    /\ tmp_out_dir = "none"
    /\ out_dir = [n \in EntryNames |-> "none"]
    /\ xresult = None
    /\ xevents = << >>

---------------------------------------------------------------------------
(* The audit of the installed files                                        *)

\* Bounds: the tool prints up to MaxLines lines for a file, and up to MaxFiles files
\* are installed.
MaxLines == 2
MaxFiles == 2

\* good_libs is not running: the classes of yb_build_thirdparty_main.py, a library
\* for which the tool prints nothing and exits with 0.
NoLib ==
    [module |-> "yb_build_thirdparty_main", file_basename |-> "libfoo.so",
     cmdout |-> << >>, returncode |-> 0]

LibsAtRest ==
    /\ lpc = "idle"
    /\ lin = NoLib
    /\ lresult = None

AuditAtRest ==
    /\ apc = "idle"
    /\ installed_files = {}
    /\ inspected = {}
    /\ test_pass = TRUE
    /\ aresult = None

---------------------------------------------------------------------------
(* The choice of the compilers                                             *)

\* The directories that can hold compilers: the one a prefix option or variable
\* names, the Linuxbrew directory, <thirdparty>/clang-toolchain, the root of
\* devtoolset 8, and /usr.
PREFIX == "/opt/yb-build/compiler"
LINUXBREW == "/opt/linuxbrew"
CLANG_TOOLCHAIN == "clang-toolchain"
DEVTOOLSET == "/opt/rh/devtoolset-8/root/usr"
USR == "/usr"
Roots == { PREFIX, LINUXBREW, CLANG_TOOLCHAIN, DEVTOOLSET, USR }

\* A compiler suffix, as in gcc-11.
SUFFIX == "-11"

\* os.path.join(root, 'bin', name) + suffix.
bin_path(dir, program, suffix) == [root |-> dir, name |-> program, suffix |-> suffix]
\* No path: None.
NoPath == bin_path(None, None, "")

\* The classes: the methods of Builder in yb_build_thirdparty_main.py, and
\* CompilerChoice.
ChoiceModules == { "yb_build_thirdparty_main", "compiler_choice" }

\* No option given and no variable set.
NoChoice ==
    [module |-> "yb_build_thirdparty_main", single_compiler_type |-> None,
     compiler_prefix |-> None, compiler_suffix |-> "", devtoolset |-> None,
     use_compiler_wrapper |-> FALSE, use_ccache |-> FALSE,
     YB_GCC_PREFIX |-> None, YB_CLANG_PREFIX |-> None, YB_LINUXBREW_DIR |-> None]

\* The environment before anything is exported; PATH has the bin directories of the
\* devtoolset root and of /usr.
NoEnviron ==
    [CC |-> NoPath, CXX |-> NoPath, YB_COMPILER_TYPE |-> None,
     YB_THIRDPARTY_REAL_C_COMPILER |-> NoPath, YB_THIRDPARTY_REAL_CXX_COMPILER |-> NoPath,
     YB_THIRDPARTY_USE_CCACHE |-> None, PATH |-> << DEVTOOLSET, USR >>]

NoCCall == [op |-> None, arg |-> None, result |-> None]

CompilerAtRest ==
    /\ choice = NoChoice
    /\ compiler_fs = [r \in Roots |-> "none"]
    /\ linuxbrew_dir = "unset"
    /\ compiler_type = None
    /\ cc = NoPath
    /\ cxx = NoPath
    /\ environ = NoEnviron
    /\ ccall = NoCCall

---------------------------------------------------------------------------
(* The flags                                                               *)

\* A flag: an option, and the components of the path that it names, if any.
Flag(opt) == [opt |-> opt, arg |-> << >>]
FlagOf(opt, arg) == [opt |-> opt, arg |-> arg]

\* The lists before init_flags has run.
NoFlags ==
    [preprocessor_flags |-> << >>, ld_flags |-> << >>, compiler_flags |-> << >>,
     c_flags |-> << >>, cxx_flags |-> << >>, libs |-> << >>]

\* Nothing exported yet.
NoFlagsEnviron ==
    [CXXFLAGS |-> << >>, CFLAGS |-> << >>, LDFLAGS |-> << >>, LIBS |-> << >>,
     CPPFLAGS |-> << >>, dep |-> None, build_type |-> None]

FlagsAtRest ==
    /\ flags = NoFlags
    /\ flags_environ = NoFlagsEnviron

MoreAtRest ==
    /\ LibsAtRest
    /\ AuditAtRest
    /\ CompilerAtRest
    /\ FlagsAtRest

---------------------------------------------------------------------------
(* Initial state: a fresh checkout, nothing downloaded or built            *)

Init ==
    /\ platform \in Platforms
    /\ cmdline \in [build_type : BuildTypeSet \cup { None }, skip_sanitizers : BOOLEAN,
                     dependencies : ArgLists, skip : ArgLists]
    /\ git = [head  |-> [f \in TrackedFiles |-> 0],
              index |-> [f \in TrackedFiles |-> 0],
              work  |-> [f \in TrackedFiles |-> 0],
              log   |-> [f \in TrackedFiles |-> 1],
              tip   |-> 1]
    /\ git_ops = 0
    /\ saved_git = [k \in BuildTypeSet \X DepNames |-> NoValue]
    /\ stamp_file = [k \in BuildTypeSet \X DepNames |-> NoValue]
    /\ src_dir = [d \in DepNames |-> FALSE]
    /\ patchlevel_file = [d \in DepNames |-> FALSE]
    /\ archive = [d \in DepNames |-> "absent"]
    /\ build_dir = [k \in BuildTypeSet \X DepNames |-> FALSE]
    /\ args = NoArgs
    /\ selected_dependencies = << >>
    /\ pc = "main"
    /\ run_step = 0
    /\ build_type = None
    /\ dep_index = 0
    /\ entered = << >>
    /\ invoked = << >>
    /\ error = None
    /\ last = NoCall
    /\ FetchAtRest
    /\ ExtractAtRest
    /\ MoreAtRest

---------------------------------------------------------------------------
(* main(): Builder(), builder.init()                                       *)

main_init ==
    /\ pc = "main"
    /\ \E cl \in BOOLEAN :
          LET r == init_selection(cmdline.dependencies, cmdline.skip)
          IN  /\ args' = [build_type |-> cmdline.build_type,
                          skip_sanitizers |-> cmdline.skip_sanitizers, clean |-> cl]
              /\ selected_dependencies' = r.selected
              /\ pc' = IF r.ok THEN "run" ELSE "failed"
              /\ error' = IF r.ok THEN None ELSE "init"
    /\ last' = NoCall
    /\ UNCHANGED << other_vars, env_vars, fs_vars, saved_git, run_step, build_type, dep_index,
                    entered, invoked >>

---------------------------------------------------------------------------
(* Builder.clean                                                           *)

build_stamp_leaf(x) == << ".build-stamp-", x >>

Selected == Range(selected_dependencies)

\* Lines 342-347: for every selected dependency and build type, the leaves
\* <name> and .build-stamp-<format(dependency)> of build/<build type> are removed.
clean_build_dir(sel, dirs) ==
    [k \in BuildTypeSet \X DepNames |->
        IF \E dep \in sel : name(dep) = dir_name(k[2]) THEN FALSE ELSE dirs[k]]

clean_stamp_file(sel, stamps) ==
    [k \in BuildTypeSet \X DepNames |->
        IF \E dep \in sel :
              build_stamp_leaf(format_dependency(dep)) = build_stamp_leaf(name(k[2]))
        THEN NoValue ELSE stamps[k]]

\* Lines 348-352: the source directory, with the patchlevel file in it.
clean_src_dir(sel, src) ==
    [d \in DepNames |-> IF d \in sel /\ dir_name(d) # NoValue THEN FALSE ELSE src[d]]

\* Lines 354-357: the downloaded archive.
clean_archive(sel, arch) ==
    [d \in DepNames |-> IF d \in sel /\ archive_name(d) # NoValue THEN "absent" ELSE arch[d]]

---------------------------------------------------------------------------
(* Builder.run                                                             *)

\* run() with the sanitizer builds called ahead of the uninstrumented ones.
RunCalls_sanitizers_first ==
    << BUILD_TYPE_COMMON, BUILD_TYPE_ASAN, BUILD_TYPE_TSAN, BUILD_TYPE_UNINSTRUMENTED,
       BUILD_TYPE_CLANG_UNINSTRUMENTED >>

\* The build() calls of run(), in the order run() makes them.
RunCalls ==
    << BUILD_TYPE_COMMON, BUILD_TYPE_UNINSTRUMENTED, BUILD_TYPE_CLANG_UNINSTRUMENTED,
       BUILD_TYPE_ASAN, BUILD_TYPE_TSAN >>

\* run() with the sanitizer builds made on Linux whatever --skip-sanitizers says.
RunCondition_ignoring_skip(i) ==
    CASE RunCalls[i] = BUILD_TYPE_COMMON -> TRUE
      [] RunCalls[i] = BUILD_TYPE_UNINSTRUMENTED -> is_linux
      [] RunCalls[i] = BUILD_TYPE_CLANG_UNINSTRUMENTED -> TRUE
      [] RunCalls[i] = BUILD_TYPE_ASAN -> is_linux
      [] RunCalls[i] = BUILD_TYPE_TSAN -> is_linux

\* The condition under which run() makes its i-th build() call.
RunCondition(i) ==
    CASE RunCalls[i] = BUILD_TYPE_COMMON -> TRUE
      [] RunCalls[i] = BUILD_TYPE_UNINSTRUMENTED -> is_linux
      [] RunCalls[i] = BUILD_TYPE_CLANG_UNINSTRUMENTED -> TRUE
      [] RunCalls[i] = BUILD_TYPE_ASAN -> is_linux /\ ~args.skip_sanitizers
      [] RunCalls[i] = BUILD_TYPE_TSAN -> is_linux /\ ~args.skip_sanitizers

\* Lines 240-249: set_compiler, clean() when asked, prepare_out_dirs.
run_begin ==
    /\ pc = "run"
    /\ IF args.clean
       THEN /\ build_dir' = clean_build_dir(Selected, build_dir)
            /\ stamp_file' = clean_stamp_file(Selected, stamp_file)
            /\ src_dir' = clean_src_dir(Selected, src_dir)
            /\ patchlevel_file' = [d \in DepNames |->
                                      patchlevel_file[d] /\ clean_src_dir(Selected, src_dir)[d]]
            /\ archive' = clean_archive(Selected, archive)
       ELSE UNCHANGED fs_vars
    /\ pc' = "build"
    /\ run_step' = 1
    /\ last' = NoCall
    /\ UNCHANGED << other_vars, env_vars, saved_git, args, selected_dependencies, build_type,
                    dep_index, entered, invoked, error >>

\* run() does not make its next build() call: the platform or --skip-sanitizers
\* rules it out.
run_skip ==
    /\ pc = "build"
    /\ run_step <= Len(RunCalls)
    /\ ~RunCondition(run_step)
    /\ run_step' = run_step + 1
    /\ last' = NoCall
    /\ UNCHANGED << other_vars, env_vars, fs_vars, saved_git, args, selected_dependencies, pc, build_type,
                    dep_index, entered, invoked, error >>

\* A build() that does not look at --build-type.
build_never_returns_early(bt) == FALSE

\* Lines 731-733: build() returns at once for a build type other than the one asked
\* for with --build-type.
build_returns_early(bt) ==
    bt # BUILD_TYPE_COMMON /\ args.build_type # None /\ bt # args.build_type

build_not_requested ==
    /\ pc = "build"
    /\ run_step <= Len(RunCalls)
    /\ RunCondition(run_step)
    /\ build_returns_early(RunCalls[run_step])
    /\ run_step' = run_step + 1
    /\ last' = NoCall
    /\ UNCHANGED << other_vars, env_vars, fs_vars, saved_git, args, selected_dependencies, pc, build_type,
                    dep_index, entered, invoked, error >>

\* Lines 735-742: set_build_type, setup_compiler (init_flags is fatal on a platform
\* that is neither Linux nor macOS), then the loop starts.
build_enter ==
    /\ pc = "build"
    /\ run_step <= Len(RunCalls)
    /\ RunCondition(run_step)
    /\ ~build_returns_early(RunCalls[run_step])
    /\ build_type' = RunCalls[run_step]
    /\ entered' = Append(entered, RunCalls[run_step])
    /\ IF is_linux \/ is_mac
       THEN pc' = "dep" /\ dep_index' = 1 /\ error' = error
       ELSE pc' = "failed" /\ dep_index' = dep_index /\ error' = "platform"
    /\ last' = NoCall
    /\ UNCHANGED << other_vars, env_vars, fs_vars, saved_git, args, selected_dependencies, run_step, invoked >>

\* The build group that build() builds in build type bt (lines 739-742).
build_group_of(bt) ==
    IF bt = BUILD_TYPE_COMMON THEN BUILD_GROUP_COMMON ELSE BUILD_GROUP_INSTRUMENTED

\* A loop that calls build_dependency for the dependencies of either group.
builds_in_any_group(dep, bt) == should_build(dep, bt)

\* Line 745: the loop's condition for calling build_dependency.
builds_in(dep, bt) == build_group(dep) = build_group_of(bt) /\ should_build(dep, bt)

\* The loop of build() passes a dependency that is not of this build type's group.
build_pass ==
    /\ pc = "dep"
    /\ dep_index <= Len(selected_dependencies)
    /\ ~builds_in(selected_dependencies[dep_index], build_type)
    /\ dep_index' = dep_index + 1
    /\ last' = NoCall
    /\ UNCHANGED << other_vars, env_vars, fs_vars, saved_git, args, selected_dependencies, pc, run_step,
                    build_type, entered, invoked, error >>

\* The loop of build() is over: build() returns to run().
build_return ==
    /\ pc = "dep"
    /\ dep_index > Len(selected_dependencies)
    /\ pc' = "build"
    /\ run_step' = run_step + 1
    /\ last' = NoCall
    /\ UNCHANGED << other_vars, env_vars, fs_vars, saved_git, args, selected_dependencies, build_type,
                    dep_index, entered, invoked, error >>

\* run() has made its last build() call and returns to main().
run_return ==
    /\ pc = "build"
    /\ run_step > Len(RunCalls)
    /\ pc' = "audit"
    /\ last' = NoCall
    /\ UNCHANGED << other_vars, env_vars, fs_vars, saved_git, args, selected_dependencies, run_step,
                    build_type, dep_index, entered, invoked, error >>

---------------------------------------------------------------------------
(* Builder.download_dependency                                             *)

MKDIR == << "mkdir" >>

\* What can go wrong outside the driver during one build_dependency call: the first
\* external step that fails, if it is reached.
Faults ==
    { "none", "git", "fetch", "fetch_partial", "checksum", "extract", "patch",
      "prepare", "adapter", "git_save" }

\* ensure_file_downloaded for an archive with a registered checksum: arch is the file
\* at the archive path ("good": its checksum is the registered one).
ensure_file_downloaded(arch, fault) ==
    IF arch = "good"
    THEN [ok |-> TRUE, archive |-> "good", fetched |-> FALSE]
    ELSE CASE fault = "fetch"         -> [ok |-> FALSE, archive |-> "absent", fetched |-> TRUE]
           [] fault = "fetch_partial" -> [ok |-> FALSE, archive |-> "bad", fetched |-> TRUE]
           [] fault = "checksum"      -> [ok |-> FALSE, archive |-> "bad", fetched |-> TRUE]
           [] OTHER                   -> [ok |-> TRUE, archive |-> "good", fetched |-> TRUE]

\* What download_dependency leaves and did when it returns at once.
nothing_done(src, patchlevel, arch) ==
    [ok |-> TRUE, src |-> src, patchlevel |-> patchlevel, archive |-> arch,
     did |-> [removed |-> FALSE, fetched |-> FALSE, extracted |-> FALSE,
              patched |-> FALSE, marked |-> FALSE]]

\* Lines 365-419: the source directory is removed, the archive fetched and extracted
\* (or the directory just created for 'mkdir'), the patches applied and the
\* patchlevel file written.  The result says whether this returned, the files it
\* leaves, and what it did.
download_and_patch(dep, fault, arch) ==
    LET e == ensure_file_downloaded(arch, fault)
        is_mkdir == download_url(dep) = MKDIR
        no_archive == ~is_mkdir /\ archive_name(dep) = NoValue
        fetch_failed == ~is_mkdir /\ ~no_archive /\ ~e.ok
        extract_failed == ~is_mkdir /\ ~no_archive /\ e.ok /\ fault = "extract"
        have_tree == ~no_archive /\ ~fetch_failed /\ ~extract_failed
        patch_failed == have_tree /\ fault = "patch"
    IN  [ok |-> ~fetch_failed /\ ~extract_failed /\ ~patch_failed,
         src |-> have_tree,
         patchlevel |-> have_tree /\ ~patch_failed,
         archive |-> IF is_mkdir \/ no_archive THEN arch ELSE e.archive,
         did |-> [removed |-> TRUE,
                  fetched |-> ~is_mkdir /\ ~no_archive /\ e.fetched,
                  extracted |-> ~is_mkdir /\ ~no_archive /\ e.ok /\ fault # "extract",
                  patched |-> have_tree,
                  marked |-> have_tree /\ ~patch_failed]]

\* A download_dependency that does not look for the patchlevel file.
download_dependency_always(dep, fault, src, patchlevel, arch) ==
    download_and_patch(dep, fault, arch)

\* download_dependency(dep): nothing to do when the patchlevel file is there.
download_dependency(dep, fault, src, patchlevel, arch) ==
    IF patchlevel
    THEN nothing_done(src, patchlevel, arch)
    ELSE download_and_patch(dep, fault, arch)

---------------------------------------------------------------------------
(* Builder.build_dependency                                                *)

\* The dependency the loop of build() is at.
current_dep == selected_dependencies[dep_index]

\* A build_dependency that goes on after the dependency's build() has failed.
failed_stage_adapter_ignored(d, fault) ==
    CASE ~d.ok -> "download"
      [] d.ok /\ ~d.src -> "prepare"
      [] d.ok /\ d.src /\ fault = "prepare" -> "prepare"
      [] d.ok /\ d.src /\ fault = "git_save" -> "save_stamp"
      [] OTHER -> None

\* A build_dependency that goes on after the download has failed.
failed_stage_download_ignored(d, fault) ==
    CASE d.src /\ fault = "prepare" -> "prepare"
      [] d.src /\ fault = "adapter" -> "adapter"
      [] d.src /\ fault = "git_save" -> "save_stamp"
      [] ~d.src -> "prepare"
      [] OTHER -> None

\* Lines 811-829: the first step of a rebuild that raises, or None when all of them
\* return.  d is what download_dependency did.  create_build_dir_and_prepare is fatal
\* without a source directory and when mkdir or rsync fail; then the dependency's
\* build() runs; then the stamp is computed again and saved.
failed_stage(d, fault) ==
    CASE ~d.ok -> "download"
      [] d.ok /\ ~d.src -> "prepare"
      [] d.ok /\ d.src /\ fault = "prepare" -> "prepare"
      [] d.ok /\ d.src /\ fault = "adapter" -> "adapter"
      [] d.ok /\ d.src /\ fault = "git_save" -> "save_stamp"
      [] OTHER -> None

\* The whole of build_dependency(dep) in build type bt under the given fault: how it
\* ended ("not_rebuilding", "built", or "fatal" with the stage that failed), the
\* files it leaves and whether the dependency's build() was called.
build_dependency(dep, bt, fault) ==
    LET k == << bt, dep >>
        git_ok == stamp_inputs_exist(git, dep) /\ fault # "git"
        rebuild == should_rebuild_dependency(git, stamp_file, src_dir, dep, bt)
        d == download_dependency(dep, fault, src_dir[dep], patchlevel_file[dep], archive[dep])
        stage == failed_stage(d, fault)
        adapter_called == d.ok /\ d.src /\ fault # "prepare"
        unchanged == [result |-> "fatal", stage |-> "stamp", rebuild |-> None,
                      stamp |-> stamp_file, src |-> src_dir, patchlevel |-> patchlevel_file,
                      archive |-> archive, build |-> build_dir, adapter |-> FALSE,
                      did |-> NoValue]
    IN  IF ~git_ok
        THEN unchanged
        ELSE IF ~rebuild
        THEN [unchanged EXCEPT !.result = "not_rebuilding", !.stage = None,
                               !.rebuild = "no"]
        ELSE [result |-> IF stage = None THEN "built" ELSE "fatal",
              stage |-> stage,
              rebuild |-> "yes",
              stamp |-> IF stage = None
                        THEN [stamp_file EXCEPT ![k] = get_build_stamp_for_dependency(git, dep)]
                        ELSE stamp_file,
              src |-> [src_dir EXCEPT ![dep] = d.src],
              patchlevel |-> [patchlevel_file EXCEPT ![dep] = d.patchlevel],
              archive |-> [archive EXCEPT ![dep] = d.archive],
              build |-> [build_dir EXCEPT ![k] = build_dir[k] \/ (d.ok /\ d.src)],
              adapter |-> adapter_called,
              did |-> d.did]

\* What the call just made is remembered as, for the properties below.
call_record(dep, bt, r, fault) ==
    [op |-> "build_dependency", dep |-> dep, build_type |-> bt,
     result |-> r.result, stage |-> r.stage, rebuild |-> r.rebuild,
     same_stamp |-> stamp_file[<< bt, dep >>] = get_build_stamp_for_dependency(git, dep),
     had_stamp |-> stamp_file[<< bt, dep >>] # NoValue,
     had_src |-> src_dir[dep],
     had_patchlevel |-> patchlevel_file[dep],
     adapter |-> r.adapter,
     adapter_failed |-> r.adapter /\ fault = "adapter",
     did |-> r.did]

build_dependency_step(result) ==
    /\ pc = "dep"
    /\ dep_index <= Len(selected_dependencies)
    /\ builds_in(current_dep, build_type)
    /\ \E fault \in Faults :
          LET r == build_dependency(current_dep, build_type, fault)
          IN  /\ r.result = result
              /\ stamp_file' = r.stamp
              /\ src_dir' = r.src
              /\ patchlevel_file' = r.patchlevel
              /\ archive' = r.archive
              /\ build_dir' = r.build
              /\ saved_git' = IF r.result = "built"
                              THEN [saved_git EXCEPT ![<< build_type, current_dep >>] = git]
                              ELSE saved_git
              /\ invoked' = IF r.adapter
                            THEN Append(invoked, << current_dep, build_type >>)
                            ELSE invoked
              /\ last' = call_record(current_dep, build_type, r, fault)
              /\ IF r.result = "fatal"
                 THEN pc' = "failed" /\ error' = r.stage /\ dep_index' = dep_index
                 ELSE pc' = pc /\ error' = error /\ dep_index' = dep_index + 1
    /\ UNCHANGED << other_vars, env_vars, args, selected_dependencies, run_step, build_type,
                    entered >>

\* build_dependency returns without rebuilding.
build_dependency_not_rebuilding == build_dependency_step("not_rebuilding")

\* build_dependency fetches, builds and saves the stamp.
build_dependency_built == build_dependency_step("built")

\* build_dependency ends the run with an error.
build_dependency_fatal == build_dependency_step("fatal")

---------------------------------------------------------------------------
(* main(): tester.run(), and the end of the process                        *)

\* The audit of the installed files passes or ends in a fatal error.
tester_run ==
    /\ pc = "audit"
    /\ \E pass \in BOOLEAN :
          /\ pc' = IF pass THEN "done" ELSE "failed"
          /\ error' = IF pass THEN None ELSE "audit"
    /\ last' = [op |-> "tester_run"]
    /\ UNCHANGED << other_vars, env_vars, fs_vars, saved_git, args, selected_dependencies, run_step,
                    build_type, dep_index, entered, invoked >>

\* The process ends; what stays is what is on disk.
main_exit ==
    /\ pc \in { "done", "failed" }
    /\ pc' = "main"
    /\ args' = NoArgs
    /\ selected_dependencies' = << >>
    /\ run_step' = 0
    /\ build_type' = None
    /\ dep_index' = 0
    /\ entered' = << >>
    /\ invoked' = << >>
    /\ error' = None
    /\ last' = NoCall
    /\ UNCHANGED << other_vars, env_vars, fs_vars, saved_git >>

---------------------------------------------------------------------------
(* The developer, between runs: edits, stages and commits tracked files    *)

\* Bound on the number of such changes in one behaviour.
MaxGitOps == 3

\* The files the developer changes: the driver, the definition file of abseil, and
\* the definition file of another dependency.
EditedFiles == { MAIN_PY, definition_file("abseil"), definition_file("tcmalloc") }

\* A tracked file is edited, or deleted, in the work tree.
git_edit ==
    /\ pc = "main"
    /\ git_ops < MaxGitOps
    /\ \E f \in EditedFiles, c \in Contents \cup { Missing } :
          /\ c # git.work[f]
          /\ git' = [git EXCEPT !.work[f] = c]
    /\ git_ops' = git_ops + 1
    /\ UNCHANGED << other_vars, platform, cmdline, fs_vars, run_vars, saved_git, last >>

\* git add <file>
git_add ==
    /\ pc = "main"
    /\ git_ops < MaxGitOps
    /\ \E f \in EditedFiles :
          /\ git.work[f] # Missing
          /\ git.index[f] # git.work[f]
          /\ git' = [git EXCEPT !.index[f] = git.work[f]]
    /\ git_ops' = git_ops + 1
    /\ UNCHANGED << other_vars, platform, cmdline, fs_vars, run_vars, saved_git, last >>

\* git commit: what is staged becomes a new commit, the newest to touch those files.
git_commit ==
    /\ pc = "main"
    /\ git_ops < MaxGitOps
    /\ git.tip < MaxCommit
    /\ \E f \in TrackedFiles : git.head[f] # git.index[f]
    /\ git' = [git EXCEPT
                  !.tip = git.tip + 1,
                  !.head = git.index,
                  !.log = [f \in TrackedFiles |->
                              IF git.head[f] # git.index[f] THEN git.tip + 1 ELSE git.log[f]]]
    /\ git_ops' = git_ops + 1
    /\ UNCHANGED << other_vars, platform, cmdline, fs_vars, run_vars, saved_git, last >>

---------------------------------------------------------------------------
(* Builder.get_expected_checksum, Builder.verify_checksum                  *)

\* Lines 36-38.  The sleep times are in tenths of a second.
MAX_FETCH_ATTEMPTS == 10
INITIAL_DOWNLOAD_RETRY_SLEEP_TIME_SEC == 10
DOWNLOAD_RETRY_SLEEP_INCREASE_SEC == 5

\* line.rstrip()
rstrip(line) == IF is_entry(line) THEN entry_line(line[1], line[2], "") ELSE line

\* A lookup that puts the checksum of the file at hand on record whether or not
\* --add_checksum was given.
get_expected_checksum_trusting(reg, lines, add_checksum, filename, content) ==
    IF reg[filename] # NoValue
    THEN [ok |-> TRUE, checksum |-> reg[filename], filename2checksum |-> reg,
          manifest |-> lines]
    ELSE [ok |-> TRUE, checksum |-> compute_file_sha256(content),
          filename2checksum |-> [reg EXCEPT ![filename] = compute_file_sha256(content)],
          manifest |-> Append([i \in 1..Len(lines) |-> rstrip(lines[i])],
                              entry_line(compute_file_sha256(content), filename, ""))]

\* A lookup that, with --add_checksum, puts the checksum on record in
\* filename2checksum and leaves the checksum file as it is.
get_expected_checksum_in_memory(reg, lines, add_checksum, filename, content) ==
    IF reg[filename] # NoValue
    THEN [ok |-> TRUE, checksum |-> reg[filename], filename2checksum |-> reg,
          manifest |-> lines]
    ELSE [ok |-> add_checksum,
          checksum |-> IF add_checksum THEN compute_file_sha256(content) ELSE NoValue,
          filename2checksum |-> IF add_checksum
                                THEN [reg EXCEPT ![filename] = compute_file_sha256(content)]
                                ELSE reg,
          manifest |-> lines]

\* A lookup that, with --add_checksum, writes the checksum file anew with the new
\* line only.
get_expected_checksum_truncating(reg, lines, add_checksum, filename, content) ==
    IF reg[filename] # NoValue
    THEN [ok |-> TRUE, checksum |-> reg[filename], filename2checksum |-> reg,
          manifest |-> lines]
    ELSE [ok |-> add_checksum,
          checksum |-> IF add_checksum THEN compute_file_sha256(content) ELSE NoValue,
          filename2checksum |-> IF add_checksum
                                THEN [reg EXCEPT ![filename] = compute_file_sha256(content)]
                                ELSE reg,
          manifest |-> IF add_checksum
                       THEN << entry_line(compute_file_sha256(content), filename, "") >>
                       ELSE lines]

\* Lines 451-468: the checksum on record for filename; with --add_checksum the
\* checksum of the file at hand (content) is put on record first, in the checksum
\* file, rewritten line by line, and in filename2checksum.  ok is FALSE for fatal().
get_expected_checksum(reg, lines, add_checksum, filename, content) ==
    IF reg[filename] # NoValue
    THEN [ok |-> TRUE, checksum |-> reg[filename], filename2checksum |-> reg,
          manifest |-> lines]
    ELSE IF add_checksum
    THEN LET checksum == compute_file_sha256(content)
         IN  [ok |-> TRUE, checksum |-> checksum,
              filename2checksum |-> [reg EXCEPT ![filename] = checksum],
              manifest |-> Append([i \in 1..Len(lines) |-> rstrip(lines[i])],
                                  entry_line(checksum, filename, ""))]
    ELSE [ok |-> FALSE, checksum |-> NoValue, filename2checksum |-> reg,
          manifest |-> lines]

\* A comparison that accepts every file.
verify_checksum_always(content, expected_checksum) == TRUE

\* A comparison that only asks for a checksum to be on record.
verify_checksum_if_known(content, expected_checksum) == expected_checksum # NoValue

\* Lines 510-512.
verify_checksum(content, expected_checksum) ==
    compute_file_sha256(content) = expected_checksum

\* The lookup the current step makes for the file of the call in progress.
this_lookup ==
    get_expected_checksum(filename2checksum, manifest, dep_desc.add_checksum,
                          call.filename, download_dir[call.filename])

lookup_record(g) ==
    [filename |-> call.filename,
     known |-> filename2checksum[call.filename] # NoValue,
     content |-> download_dir[call.filename],
     ok |-> g.ok,
     checksum |-> g.checksum]

\* The step makes the lookup g and keeps what it put on record.
looked_up(g) ==
    /\ filename2checksum' = g.filename2checksum
    /\ manifest' = g.manifest
    /\ last_lookup' = lookup_record(g)

no_lookup ==
    /\ UNCHANGED << filename2checksum, manifest >>
    /\ last_lookup' = NoLookup

\* Where download_dependency goes on when ensure_file_downloaded returns.
after_ensure(filename) == IF filename = ARCHIVE THEN "extract" ELSE "extract_extra"

call_event(e) == call' = [call EXCEPT !.events = Append(call.events, e)]

---------------------------------------------------------------------------
(* Builder.ensure_file_downloaded                                          *)

\* An ensure_file_downloaded that does not look for a file already downloaded.
never_downloaded(content) == FALSE

\* Line 475: os.path.exists(path) when ensure_file_downloaded is entered.
already_downloaded(content) == content # Absent

\* Lines 475-479: the file is there, and no checksum is on record for it.
ensure_no_checksum ==
    /\ fpc = "ensure"
    /\ already_downloaded(download_dir[call.filename])
    /\ ~this_lookup.ok
    /\ looked_up(this_lookup)
    /\ call_event(<< "lookup", FALSE >>)
    /\ fpc' = "failed"
    /\ UNCHANGED << dep_desc, download_dir, src_tree, pass_events >>
    /\ UNCHANGED << build_vars, extract_vars, more_vars >>

\* Lines 475-482: the file is there with the checksum on record.
ensure_already_correct ==
    /\ fpc = "ensure"
    /\ already_downloaded(download_dir[call.filename])
    /\ this_lookup.ok
    /\ verify_checksum(download_dir[call.filename], this_lookup.checksum)
    /\ looked_up(this_lookup)
    /\ call' = [call EXCEPT !.events = call.events \o << << "lookup", TRUE >>,
                                                         << "return" >> >>]
    /\ fpc' = after_ensure(call.filename)
    /\ pass_events' = Append(pass_events,
                             << "verified", call.filename, download_dir[call.filename] >>)
    /\ UNCHANGED << dep_desc, download_dir, src_tree >>
    /\ UNCHANGED << build_vars, extract_vars, more_vars >>

\* Lines 475-484: the file is there with another checksum, and is removed.
ensure_wrong_checksum ==
    /\ fpc = "ensure"
    /\ already_downloaded(download_dir[call.filename])
    /\ this_lookup.ok
    /\ ~verify_checksum(download_dir[call.filename], this_lookup.checksum)
    /\ looked_up(this_lookup)
    /\ download_dir' = [download_dir EXCEPT ![call.filename] = Absent]
    /\ call' = [call EXCEPT !.events = call.events \o << << "lookup", TRUE >>, << "remove" >> >>,
                            !.attempt_index = 1,
                            !.sleep_time_sec = INITIAL_DOWNLOAD_RETRY_SLEEP_TIME_SEC]
    /\ fpc' = "fetch"
    /\ UNCHANGED << dep_desc, src_tree, pass_events >>
    /\ UNCHANGED << build_vars, extract_vars, more_vars >>

\* Lines 475, 486-487: there is no file; the loop starts without a lookup.
ensure_not_there ==
    /\ fpc = "ensure"
    /\ ~already_downloaded(download_dir[call.filename])
    /\ call' = [call EXCEPT !.attempt_index = 1,
                            !.sleep_time_sec = INITIAL_DOWNLOAD_RETRY_SLEEP_TIME_SEC]
    /\ fpc' = "fetch"
    /\ no_lookup
    /\ UNCHANGED << dep_desc, download_dir, src_tree, pass_events >>
    /\ UNCHANGED << build_vars, extract_vars, more_vars >>

\* A loop that doubles the time it sleeps.
next_sleep_time_doubled(sleep_time_sec) == sleep_time_sec + sleep_time_sec

\* Line 500: the time to sleep after the next failure.
next_sleep_time_sec(sleep_time_sec) == sleep_time_sec + DOWNLOAD_RETRY_SLEEP_INCREASE_SEC

\* Lines 489-491: curl exits with 0, having written some content, or no file.
fetch_attempt_ok ==
    /\ fpc = "fetch"
    /\ \E content \in Blobs \cup { Absent } :
          download_dir' = [download_dir EXCEPT ![call.filename] = content]
    /\ call_event(<< "curl", call.attempt_index, TRUE >>)
    /\ fpc' = "fetched"
    /\ no_lookup
    /\ UNCHANGED << dep_desc, src_tree, pass_events >>
    /\ UNCHANGED << build_vars, extract_vars, more_vars >>

\* Lines 492-500: curl fails, leaving no file or a part of one, and the loop sleeps
\* and goes on.
fetch_attempt_failed ==
    /\ fpc = "fetch"
    /\ call.attempt_index < MAX_FETCH_ATTEMPTS
    /\ \E content \in { Absent, MaxBlob } :
          download_dir' = [download_dir EXCEPT ![call.filename] = content]
    /\ call' = [call EXCEPT
                  !.events = call.events \o << << "curl", call.attempt_index, FALSE >>,
                                               << "sleep", call.sleep_time_sec >> >>,
                  !.attempt_index = call.attempt_index + 1,
                  !.sleep_time_sec = next_sleep_time_sec(call.sleep_time_sec)]
    /\ fpc' = "fetch"
    /\ no_lookup
    /\ UNCHANGED << dep_desc, src_tree, pass_events >>
    /\ UNCHANGED << build_vars, extract_vars, more_vars >>

\* Lines 492-497: curl fails in the last attempt, and the error is raised again.
fetch_give_up ==
    /\ fpc = "fetch"
    /\ call.attempt_index = MAX_FETCH_ATTEMPTS
    /\ \E content \in { Absent, MaxBlob } :
          download_dir' = [download_dir EXCEPT ![call.filename] = content]
    /\ call_event(<< "curl", call.attempt_index, FALSE >>)
    /\ fpc' = "failed"
    /\ no_lookup
    /\ UNCHANGED << dep_desc, src_tree, pass_events >>
    /\ UNCHANGED << build_vars, extract_vars, more_vars >>

\* Lines 502-503: curl has written no file.
ensure_nothing_fetched ==
    /\ fpc = "fetched"
    /\ download_dir[call.filename] = Absent
    /\ fpc' = "failed"
    /\ no_lookup
    /\ UNCHANGED << dep_desc, download_dir, src_tree, call, pass_events >>
    /\ UNCHANGED << build_vars, extract_vars, more_vars >>

\* Lines 504-508: the checksum of the fetched file is looked up and compared.
ensure_verify_fetched ==
    /\ fpc = "fetched"
    /\ download_dir[call.filename] # Absent
    /\ looked_up(this_lookup)
    /\ IF this_lookup.ok
          /\ verify_checksum(download_dir[call.filename], this_lookup.checksum)
       THEN /\ fpc' = after_ensure(call.filename)
            /\ call' = [call EXCEPT !.events = call.events \o << << "lookup", TRUE >>,
                                                                 << "return" >> >>]
            /\ pass_events' = Append(pass_events,
                                     << "verified", call.filename,
                                        download_dir[call.filename] >>)
       ELSE /\ fpc' = "failed"
            /\ call_event(<< "lookup", this_lookup.ok >>)
            /\ pass_events' = pass_events
    /\ UNCHANGED << dep_desc, download_dir, src_tree >>
    /\ UNCHANGED << build_vars, extract_vars, more_vars >>

---------------------------------------------------------------------------
(* Builder.download_dependency, step by step                               *)

\* The call before this one was for the same file and returned.
returned(c) == c.events # << >> /\ c.events[Len(c.events)] = << "return" >>

new_call(filename) ==
    [NoEnsure EXCEPT !.filename = filename, !.entry = download_dir[filename],
                     !.again = (call.filename = filename /\ returned(call))]

pass_event(e) == pass_events' = Append(pass_events, e)

\* Lines 360-363: the patchlevel file is there.
download_nothing_to_do ==
    /\ fpc = "idle"
    /\ src_tree.patchlevel
    /\ fpc' = "returned"
    /\ pass_events' = << >>
    /\ no_lookup
    /\ UNCHANGED << dep_desc, download_dir, src_tree, call >>
    /\ UNCHANGED << build_vars, extract_vars, more_vars >>

\* A download_dependency that returns as soon as it has made the source directory.
download_begin_mkdir_returns ==
    /\ fpc = "idle"
    /\ ~src_tree.patchlevel
    /\ CASE dep_desc.url = "mkdir" ->
               /\ src_tree' = [NoTree EXCEPT !.exists = TRUE]
               /\ pass_events' = << << "remove_src" >>, << "mkdir" >> >>
               /\ fpc' = "returned"
               /\ call' = NoEnsure
         [] dep_desc.url # "mkdir" /\ ~dep_desc.archive_name ->
               /\ src_tree' = NoTree
               /\ pass_events' = << << "remove_src" >> >>
               /\ fpc' = "returned"
               /\ call' = NoEnsure
         [] OTHER ->
               /\ src_tree' = NoTree
               /\ pass_events' = << << "remove_src" >> >>
               /\ fpc' = "ensure"
               /\ call' = new_call(ARCHIVE)
    /\ no_lookup
    /\ UNCHANGED << dep_desc, download_dir >>
    /\ UNCHANGED << build_vars, extract_vars, more_vars >>

\* A download_dependency that extracts over the source directory that is there.
download_begin_keeping_src ==
    /\ fpc = "idle"
    /\ ~src_tree.patchlevel
    /\ CASE dep_desc.url = "mkdir" ->
               /\ src_tree' = [src_tree EXCEPT !.exists = TRUE]
               /\ pass_events' = << << "remove_src" >>, << "mkdir" >> >>
               /\ fpc' = "extras"
               /\ call' = NoEnsure
         [] dep_desc.url # "mkdir" /\ ~dep_desc.archive_name ->
               /\ src_tree' = src_tree
               /\ pass_events' = << << "remove_src" >> >>
               /\ fpc' = "returned"
               /\ call' = NoEnsure
         [] OTHER ->
               /\ src_tree' = src_tree
               /\ pass_events' = << << "remove_src" >> >>
               /\ fpc' = "ensure"
               /\ call' = new_call(ARCHIVE)
    /\ no_lookup
    /\ UNCHANGED << dep_desc, download_dir >>
    /\ UNCHANGED << build_vars, extract_vars, more_vars >>

\* Lines 365-383: the source directory is removed; then the directory is made, or
\* the call returns for want of an archive name, or ensure_file_downloaded is called.
download_begin ==
    /\ fpc = "idle"
    /\ ~src_tree.patchlevel
    /\ CASE dep_desc.url = "mkdir" ->
               /\ src_tree' = [NoTree EXCEPT !.exists = TRUE]
               /\ pass_events' = << << "remove_src" >>, << "mkdir" >> >>
               /\ fpc' = "extras"
               /\ call' = NoEnsure
         [] dep_desc.url # "mkdir" /\ ~dep_desc.archive_name ->
               /\ src_tree' = NoTree
               /\ pass_events' = << << "remove_src" >> >>
               /\ fpc' = "returned"
               /\ call' = NoEnsure
         [] OTHER ->
               /\ src_tree' = NoTree
               /\ pass_events' = << << "remove_src" >> >>
               /\ fpc' = "ensure"
               /\ call' = new_call(ARCHIVE)
    /\ no_lookup
    /\ UNCHANGED << dep_desc, download_dir >>
    /\ UNCHANGED << build_vars, extract_vars, more_vars >>

\* Lines 379-381: extract_archive puts the one directory of the archive in place of
\* the source directory, or raises.
download_extract ==
    /\ fpc = "extract"
    /\ \/ /\ src_tree' = [src_tree EXCEPT !.exists = TRUE, !.main = download_dir[ARCHIVE]]
          /\ pass_event(<< "extract", ARCHIVE, download_dir[ARCHIVE] >>)
          /\ fpc' = "extras"
       \/ /\ fpc' = "failed"
          /\ UNCHANGED << src_tree, pass_events >>
    /\ no_lookup
    /\ UNCHANGED << dep_desc, download_dir, call >>
    /\ UNCHANGED << build_vars, extract_vars, more_vars >>

\* Lines 385-389: the next extra download, or on to the patches.
download_extras ==
    /\ fpc = "extras"
    /\ IF Cardinality(src_tree.extras) < dep_desc.extra_downloads
       THEN /\ fpc' = "ensure"
            /\ call' = new_call(extra_archive(Cardinality(src_tree.extras) + 1))
       ELSE /\ fpc' = "patches"
            /\ call' = call
    /\ no_lookup
    /\ UNCHANGED << dep_desc, download_dir, src_tree, pass_events >>
    /\ UNCHANGED << build_vars, extract_vars, more_vars >>

\* Lines 390-397: the extra archive is extracted under the source directory and its
\* post_exec commands run, or one of these raises.
download_extract_extra ==
    /\ fpc = "extract_extra"
    /\ \/ /\ src_tree' = [src_tree EXCEPT !.extras = src_tree.extras \cup { call.filename[2] }]
          /\ pass_event(<< "extract", call.filename, download_dir[call.filename] >>)
          /\ fpc' = "extras"
       \/ /\ fpc' = "failed"
          /\ UNCHANGED << src_tree, pass_events >>
    /\ no_lookup
    /\ UNCHANGED << dep_desc, download_dir, call >>
    /\ UNCHANGED << build_vars, extract_vars, more_vars >>

\* A loop that goes on whatever the exit code of patch.
patch_never_fatal(exit_code) == FALSE

\* Lines 409-411: if exit_code: fatal(...)
patch_fatal(exit_code) == exit_code # 0

\* Lines 399-411: the next patch is applied; an exit code other than 0 is fatal.
download_patch ==
    /\ fpc = "patches"
    /\ Len(src_tree.patches) < dep_desc.patches
    /\ \E exit_code \in {0, 1} :
          /\ pass_event(<< "patch", Len(src_tree.patches) + 1, exit_code >>)
          /\ IF patch_fatal(exit_code)
             THEN /\ fpc' = "failed"
                  /\ src_tree' = src_tree
             ELSE /\ fpc' = "patches"
                  /\ src_tree' = [src_tree EXCEPT
                                     !.patches = Append(src_tree.patches,
                                                        Len(src_tree.patches) + 1)]
    /\ no_lookup
    /\ UNCHANGED << dep_desc, download_dir, call >>
    /\ UNCHANGED << build_vars, extract_vars, more_vars >>

\* Lines 412-413: after the last patch, the post_patch command, when there is one.
download_post_patch ==
    /\ fpc = "patches"
    /\ Len(src_tree.patches) = dep_desc.patches
    /\ IF dep_desc.patches > 0 /\ dep_desc.post_patch
       THEN \/ /\ src_tree' = [src_tree EXCEPT !.post_patch = TRUE]
               /\ fpc' = "mark"
            \/ /\ src_tree' = src_tree
               /\ fpc' = "failed"
       ELSE /\ src_tree' = src_tree
            /\ fpc' = "mark"
    /\ no_lookup
    /\ UNCHANGED << dep_desc, download_dir, call, pass_events >>
    /\ UNCHANGED << build_vars, extract_vars, more_vars >>

\* Lines 417-419: the patchlevel file is written.
download_write_patchlevel ==
    /\ fpc = "mark"
    /\ src_tree' = [src_tree EXCEPT !.patchlevel = TRUE]
    /\ pass_event(<< "patchlevel" >>)
    /\ fpc' = "returned"
    /\ no_lookup
    /\ UNCHANGED << dep_desc, download_dir, call >>
    /\ UNCHANGED << build_vars, extract_vars, more_vars >>

\* build_dependency calls download_dependency for the dependency once more, in
\* another build type of the same run.
download_again ==
    /\ fpc = "returned"
    /\ fpc' = "idle"
    /\ no_lookup
    /\ UNCHANGED << dep_desc, download_dir, src_tree, call, pass_events >>
    /\ UNCHANGED << build_vars, extract_vars, more_vars >>

\* The driver is started again after a run that ended, with or without an error:
\* Builder.__init__ loads the checksum file (line 158).
download_next_run ==
    /\ fpc \in {"returned", "failed"}
    /\ fpc' = "idle"
    /\ filename2checksum' = load_expected_checksums(manifest)
    /\ manifest' = manifest
    /\ last_lookup' = NoLookup
    /\ UNCHANGED << dep_desc, download_dir, src_tree, call, pass_events >>
    /\ UNCHANGED << build_vars, extract_vars, more_vars >>

NextFetch ==
    \/ download_nothing_to_do
    \/ download_begin
    \/ ensure_no_checksum
    \/ ensure_already_correct
    \/ ensure_wrong_checksum
    \/ ensure_not_there
    \/ fetch_attempt_ok
    \/ fetch_attempt_failed
    \/ fetch_give_up
    \/ ensure_nothing_fetched
    \/ ensure_verify_fetched
    \/ download_extract
    \/ download_extras
    \/ download_extract_extra
    \/ download_patch
    \/ download_post_patch
    \/ download_write_patchlevel
    \/ download_again
    \/ download_next_run

Next ==
    \/ main_init
    \/ run_begin
    \/ run_skip
    \/ build_not_requested
    \/ build_enter
    \/ build_pass
    \/ build_dependency_not_rebuilding
    \/ build_dependency_built
    \/ build_dependency_fatal
    \/ build_return
    \/ run_return
    \/ tester_run
    \/ main_exit

Spec == Init /\ [][Next]_vars

---------------------------------------------------------------------------
(* The driver run again and again on a Linux machine for one instrumented  *)
(* dependency and one build type, while the developer changes the tracked  *)
(* files between the runs.                                                 *)

InitStamp ==
    /\ Init
    /\ platform = "linux"
    /\ cmdline = [build_type |-> BUILD_TYPE_UNINSTRUMENTED, skip_sanitizers |-> TRUE,
                  dependencies |-> << "abseil" >>, skip |-> << >>]

NextStamp ==
    \/ git_edit
    \/ git_add
    \/ git_commit
    \/ Next

SpecStamp == InitStamp /\ [][NextStamp]_vars

---------------------------------------------------------------------------
(* download_dependency called again and again for one dependency, in one   *)
(* run and in the runs that follow, while the server and the network       *)
(* answer as they like.                                                    *)

\* The build itself before main() is entered.
BuildIdle ==
    /\ git = [head  |-> [f \in TrackedFiles |-> 0],
              index |-> [f \in TrackedFiles |-> 0],
              work  |-> [f \in TrackedFiles |-> 0],
              log   |-> [f \in TrackedFiles |-> 1],
              tip   |-> 1]
    /\ git_ops = 0
    /\ saved_git = [k \in BuildTypeSet \X DepNames |-> NoValue]
    /\ stamp_file = [k \in BuildTypeSet \X DepNames |-> NoValue]
    /\ src_dir = [d \in DepNames |-> FALSE]
    /\ patchlevel_file = [d \in DepNames |-> FALSE]
    /\ archive = [d \in DepNames |-> "absent"]
    /\ build_dir = [k \in BuildTypeSet \X DepNames |-> FALSE]
    /\ args = NoArgs
    /\ selected_dependencies = << >>
    /\ pc = "main"
    /\ run_step = 0
    /\ build_type = None
    /\ dep_index = 0
    /\ entered = << >>
    /\ invoked = << >>
    /\ error = None
    /\ last = NoCall

\* The same, on Linux.
BeforeMain ==
    /\ platform = "linux"
    /\ BuildIdle

\* The build itself at rest, on Linux with no options.
BuildAtRest ==
    /\ BeforeMain
    /\ cmdline = [build_type |-> None, skip_sanitizers |-> FALSE,
                  dependencies |-> << >>, skip |-> << >>]

InitFetch ==
    /\ BuildAtRest
    /\ ExtractAtRest
    /\ MoreAtRest
    /\ fpc = "idle"
    /\ dep_desc \in Descriptors
    /\ \E registered \in BOOLEAN :
          /\ manifest = checksum_file(registered)
          /\ filename2checksum = load_expected_checksums(checksum_file(registered))
    /\ download_dir = [f \in Filenames |-> Absent]
    /\ src_tree = NoTree
    /\ call = NoEnsure
    /\ pass_events = << >>
    /\ last_lookup = NoLookup

SpecFetch == InitFetch /\ [][NextFetch]_vars

---------------------------------------------------------------------------
(* Builder.extract_archive, step by step: one call, for an archive and a   *)
(* file system that the call finds as they are.                            *)

\* What a call is given: whether out_name is given, whether the name of the archive
\* ends with one of ARCHIVE_TYPES, whether the command that unpacks it fails, and what
\* the archive holds at its top level: directories and files whose names do not
\* start with '.', whether there are entries whose names do, and the name of its
\* directory (of the first in the listing, when it holds more than one).
Archives ==
    [out_name : BOOLEAN, known_type : BOOLEAN, command_fails : BOOLEAN,
     dirs : 0..MaxEntries, files : 0..MaxEntries, hidden : BOOLEAN,
     subdir : EntryNames]

\* A listing that counts every entry of the temporary directory.
listdir_len(x) == x.dirs + x.files + (IF x.hidden THEN 1 ELSE 0)

\* Lines 561-565: len(extracted_subdirs), the entries whose names do not start
\* with '.'.
extracted_subdirs_len(x) == x.dirs + x.files

\* A destination that is named after the directory of the archive even with out_name.
full_out_path_of_archive == xin.subdir

\* Lines 532-534 and 577-578: full_out_path, as a name in out_dir.
full_out_path == IF xin.out_name THEN OUT_NAME ELSE xin.subdir

\* What is at the destination.
out_path == out_dir[full_out_path]

\* Lines 525-530, dest_dir_already_exists.
dest_dir_already_exists == out_path # "none"

\* The exception or the return leaves the try statement through its finally clause.
leave_try(result) ==
    /\ xresult' = result
    /\ xpc' = "finally"

\* Lines 532-536: with out_name, a destination that is there ends the call.
extract_begin ==
    /\ xpc = "idle"
    /\ IF xin.out_name /\ dest_dir_already_exists
       THEN /\ xresult' = "return"
            /\ xpc' = "done"
       ELSE /\ xresult' = xresult
            /\ xpc' = "tmp"
    /\ UNCHANGED << xin, tmp_out_dir, out_dir, xevents >>
    /\ UNCHANGED << build_vars, fetch_vars, more_vars >>

\* Lines 538-546: the temporary directory is made, unless its name is taken.
extract_make_tmp ==
    /\ xpc = "tmp"
    /\ IF tmp_out_dir # "none"
       THEN /\ xresult' = "IOError_name"
            /\ xpc' = "done"
            /\ UNCHANGED << tmp_out_dir, xevents >>
       ELSE /\ tmp_out_dir' = "empty"
            /\ xevents' = Append(xevents, "makedirs")
            /\ xpc' = "type"
            /\ xresult' = xresult
    /\ UNCHANGED << xin, out_dir >>
    /\ UNCHANGED << build_vars, fetch_vars, more_vars >>

\* Lines 548-554: the type of the archive; fatal() for a name that ends with none of
\* ARCHIVE_TYPES, before the try statement is entered.
extract_archive_type ==
    /\ xpc = "type"
    /\ IF xin.known_type
       THEN /\ xpc' = "command"
            /\ xresult' = xresult
       ELSE /\ xpc' = "done"
            /\ xresult' = "fatal"
    /\ UNCHANGED << xin, tmp_out_dir, out_dir, xevents >>
    /\ UNCHANGED << build_vars, fetch_vars, more_vars >>

\* Lines 556-560: the command unpacks the archive in the temporary directory, or
\* fails, having written nothing or something there.
extract_command ==
    /\ xpc = "command"
    /\ IF xin.command_fails
       THEN /\ tmp_out_dir' \in { "empty", "unpacked" }
            /\ leave_try("CalledProcessError")
            /\ xevents' = xevents
       ELSE /\ tmp_out_dir' = IF listdir_len(xin) = 0 THEN "empty" ELSE "unpacked"
            /\ xevents' = Append(xevents, "unpack")
            /\ xpc' = "list"
            /\ xresult' = xresult
    /\ UNCHANGED << xin, out_dir >>
    /\ UNCHANGED << build_vars, fetch_vars, more_vars >>

\* Lines 561-583: the entries are counted, the only one must be a directory, and it is
\* moved to the destination, unless out_name was not given and the destination is
\* there.
extract_move ==
    /\ xpc = "list"
    /\ CASE extracted_subdirs_len(xin) # 1 ->
               /\ leave_try("IOError_format")
               /\ UNCHANGED << tmp_out_dir, out_dir, xevents >>
         [] extracted_subdirs_len(xin) = 1 /\ xin.dirs # 1 ->
               /\ leave_try("IOError_format")
               /\ UNCHANGED << tmp_out_dir, out_dir, xevents >>
         [] OTHER ->
               IF ~xin.out_name /\ dest_dir_already_exists
               THEN /\ leave_try("return")
                    /\ UNCHANGED << tmp_out_dir, out_dir, xevents >>
               ELSE /\ out_dir' = [out_dir EXCEPT ![full_out_path] = "moved"]
                    /\ tmp_out_dir' = IF xin.hidden THEN "unpacked" ELSE "empty"
                    /\ xevents' = Append(xevents, "move")
                    /\ leave_try("return")
    /\ UNCHANGED xin
    /\ UNCHANGED << build_vars, fetch_vars, more_vars >>

\* Lines 584-586: the temporary directory is removed, and the call ends.
extract_finally ==
    /\ xpc = "finally"
    /\ tmp_out_dir' = "none"
    /\ xevents' = Append(xevents, "rmtree")
    /\ xpc' = "done"
    /\ UNCHANGED << xin, out_dir, xresult >>
    /\ UNCHANGED << build_vars, fetch_vars, more_vars >>

NextExtract ==
    \/ extract_begin
    \/ extract_make_tmp
    \/ extract_archive_type
    \/ extract_command
    \/ extract_move
    \/ extract_finally

InitExtract ==
    /\ BuildAtRest
    /\ FetchAtRest
    /\ MoreAtRest
    /\ xpc = "idle"
    /\ xin \in Archives
    /\ tmp_out_dir \in { "none", "foreign" }
    /\ out_dir \in [EntryNames -> { "none", "old" }]
    /\ xresult = None
    /\ xevents = << >>

SpecExtract == InitExtract /\ [][NextExtract]_vars

---------------------------------------------------------------------------
(* LibTestLinux and LibTestMac: check_lib_deps and good_libs, for one file *)
(* and what ldd or otool -L prints for it.  A line of the output is one of *)
(* a few sample lines, and a pattern is the set of the sample lines that   *)
(* it matches.                                                             *)

\* Sample lines of ldd.
VDSO_LINE == "\tlinux-vdso.so.1 =>  (0x00007ffd)"
LIB64_LINE == "\tlibm.so.6 => /lib64/libm.so.6 (0x00007f1a)"
LIBCXX_NOT_FOUND_LINE == "\tlibc++.so.1 => not found"
OTHER_NOT_FOUND_LINE == "\tlibfoo.so.1 => not found"
HOME_LINE == "\tlibbar.so => /home/user/lib/libbar.so (0x00007f2b)"
\* Sample lines of otool -L.
USR_LINE == "\t/usr/lib/libSystem.B.dylib (compatibility version 1.0.0)"
OPT_LINE == "\t/opt/local/lib/libz.1.dylib (compatibility version 1.0.0)"
NOT_OBJECT_LINE == "/installed/common/bin/script: is not an object file"

Lines ==
    { VDSO_LINE, LIB64_LINE, LIBCXX_NOT_FOUND_LINE, OTHER_NOT_FOUND_LINE, HOME_LINE,
      USR_LINE, OPT_LINE, NOT_OBJECT_LINE }

Outputs == UNION { [1..n -> Lines] : n \in 0..MaxLines }

\* The base names of the sample files.
Basenames == { "libc++abi.so.1.0", "libc++.so.1.0", "libfoo.so" }

\* The two places where the classes are defined.
LibModules == { "yb_build_thirdparty_main", "shared_library_checking" }

\* okay_paths.match(line), with the lib_re_list of LibTestLinux
\* ("^\tlinux-vdso", "^.* => /lib64/", ...) and of LibTestMac ("^\t/usr/", "^/", ...).
okay_paths_match(plat, line) ==
    IF plat = "mac"
    THEN line \in { USR_LINE, NOT_OBJECT_LINE }
    ELSE line \in { VDSO_LINE, LIB64_LINE }

\* LIBCXX_NOT_FOUND.match(line): '^\tlibc[+][+][.]so[.][0-9]+ => not found'.
LIBCXX_NOT_FOUND == "LIBCXX_NOT_FOUND"
pattern_match(pattern, line) ==
    pattern = LIBCXX_NOT_FOUND /\ line = LIBCXX_NOT_FOUND_LINE

\* A check_lib_deps whose status is that of the last line.
RECURSIVE check_lib_deps_last_line(_, _, _)
check_lib_deps_last_line(plat, cmdout, additional_allowed_pattern) ==
    IF cmdout = << >>
    THEN TRUE
    ELSE okay_paths_match(plat, cmdout[Len(cmdout)])
            \/ pattern_match(additional_allowed_pattern, cmdout[Len(cmdout)])

\* check_lib_deps: status starts as True and becomes False at a line that neither
\* okay_paths nor the additional pattern matches.
RECURSIVE check_lib_deps(_, _, _)
check_lib_deps(plat, cmdout, additional_allowed_pattern) ==
    IF cmdout = << >>
    THEN TRUE
    ELSE LET status == check_lib_deps(plat, SubSeq(cmdout, 1, Len(cmdout) - 1),
                                      additional_allowed_pattern)
             line == cmdout[Len(cmdout)]
         IN  IF ~okay_paths_match(plat, line)
                   /\ ~pattern_match(additional_allowed_pattern, line)
             THEN FALSE
             ELSE status

\* A good_libs that allows the line for every file.
additional_allowed_always(module, file_basename) == LIBCXX_NOT_FOUND

\* good_libs of LibTestLinux in shared_library_checking.py: the additional pattern
\* for a file whose base name starts with 'libc++abi.so.'; the LibTestLinux of
\* yb_build_thirdparty_main.py has no additional pattern.
additional_allowed_pattern(module, file_basename) ==
    IF module = "shared_library_checking" /\ file_basename \in { "libc++abi.so.1.0" }
    THEN LIBCXX_NOT_FOUND
    ELSE None

\* 'is not an object file' in libout
is_not_an_object_file(libout) == \E i \in 1..Len(libout) : libout[i] = NOT_OBJECT_LINE

\* A good_libs of LibTestLinux for which every exit code of ldd other than 0 makes the
\* file bad.
good_libs_exit_code_0(plat, x) ==
    IF plat = "mac"
    THEN IF x.returncode # 0 THEN "raised"
         ELSE IF is_not_an_object_file(x.cmdout) THEN "good"
         ELSE IF check_lib_deps(plat, x.cmdout, None) THEN "good" ELSE "bad"
    ELSE IF x.returncode > 0 THEN "bad"
         ELSE IF check_lib_deps(plat, x.cmdout,
                                additional_allowed_pattern(x.module, x.file_basename))
              THEN "good" ELSE "bad"

\* good_libs: "good" for True, "bad" for False, "raised" when check_output raises
\* CalledProcessError and good_libs does not catch it.
good_libs(plat, x) ==
    IF plat = "mac"
    THEN IF x.returncode # 0 THEN "raised"
         ELSE IF is_not_an_object_file(x.cmdout) THEN "good"
         ELSE IF check_lib_deps(plat, x.cmdout, None) THEN "good" ELSE "bad"
    ELSE IF x.returncode > 1 THEN "bad"
         ELSE IF check_lib_deps(plat, x.cmdout,
                                additional_allowed_pattern(x.module, x.file_basename))
              THEN "good" ELSE "bad"

LibInputs ==
    [module : LibModules, file_basename : Basenames, cmdout : Outputs,
     returncode : { 0, 1, 2 }]

good_libs_call ==
    /\ lpc = "idle"
    /\ lresult' = good_libs(platform, lin)
    /\ lpc' = "done"
    /\ UNCHANGED << lin, audit_vars >>
    /\ UNCHANGED << build_vars, fetch_vars, extract_vars, compiler_vars, flag_vars >>

InitLibs ==
    /\ platform \in { "linux", "mac" }
    /\ BuildIdle
    /\ cmdline = [build_type |-> None, skip_sanitizers |-> FALSE,
                  dependencies |-> << >>, skip |-> << >>]
    /\ FetchAtRest
    /\ ExtractAtRest
    /\ AuditAtRest
    /\ CompilerAtRest
    /\ FlagsAtRest
    /\ lpc = "idle"
    /\ lin \in LibInputs
    /\ lresult = None

SpecLibs == InitLibs /\ [][good_libs_call]_vars

---------------------------------------------------------------------------
(* LibTestBase.run: the sweep over the installed files                     *)

\* The installed directories that hold the sample files, the names of their
\* subdirectories, and what the tool does for a sample file: it prints nothing, it
\* prints a line that no pattern matches, it fails with exit code 2, or it prints a
\* line that is allowed and exits with 1.
AuditTypes == { BUILD_TYPE_COMMON, BUILD_TYPE_ASAN }
CandidateNames == { "lib", "libcxx", "bin", "sbin", "include" }
SampleLibs ==
    { NoLib, [NoLib EXCEPT !.cmdout = << HOME_LINE >>], [NoLib EXCEPT !.returncode = 2],
      [NoLib EXCEPT !.cmdout = << LIB64_LINE >>, !.returncode = 1] }

\* A file: the installed directory and the subdirectory of it that the file is
\* under, whether it is a symbolic link, and what the tool does for it.
InstalledFiles ==
    [build_type : AuditTypes, dir : CandidateNames, islink : { FALSE }, lib : SampleLibs]
    \cup [build_type : AuditTypes, dir : CandidateNames, islink : { TRUE },
          lib : { [NoLib EXCEPT !.cmdout = << HOME_LINE >>] }]

\* The sets of up to n files.
RECURSIVE FileSets(_)
FileSets(n) ==
    IF n = 0
    THEN { {} }
    ELSE LET smaller == FileSets(n - 1)
         IN  smaller \cup { F \cup { f } : F \in smaller, f \in InstalledFiles }

\* dir_pattern.match(candidate.name), for '^(lib|libcxx|[s]bin)$': the class [s]
\* stands for the one letter s, so that the pattern matches sbin and not bin.
dir_pattern(candidate_name) == candidate_name \in { "lib", "libcxx", "sbin" }

type_index(bt) == CHOOSE i \in 1..Len(BUILD_TYPES) : BUILD_TYPES[i] = bt

\* The files that the loops of run have yet to come to: not a link, under a
\* subdirectory that dir_pattern matches.
to_examine ==
    { f \in installed_files \ inspected : dir_pattern(f.dir) /\ ~f.islink }

\* init_regex, and the loops are entered.
audit_begin ==
    /\ apc = "idle"
    /\ apc' = "sweep"
    /\ test_pass' = TRUE
    /\ UNCHANGED << installed_files, inspected, aresult, lib_vars >>
    /\ UNCHANGED << build_vars, fetch_vars, extract_vars, compiler_vars, flag_vars >>

\* The next file, of the first installed directory in the order of BUILD_TYPES that has
\* files left: good_libs is called for it, and test_pass becomes False when it
\* returns False; an error that good_libs raises ends run.
audit_file ==
    /\ apc = "sweep"
    /\ \E f \in to_examine :
          /\ \A g \in to_examine : type_index(f.build_type) <= type_index(g.build_type)
          /\ LET r == good_libs(platform, f.lib) IN
             IF r = "raised"
             THEN /\ apc' = "done"
                  /\ aresult' = "CalledProcessError"
                  /\ UNCHANGED << inspected, test_pass >>
             ELSE /\ inspected' = inspected \cup { f }
                  /\ test_pass' = IF r = "bad" THEN FALSE ELSE test_pass
                  /\ UNCHANGED << apc, aresult >>
    /\ UNCHANGED << installed_files, lib_vars >>
    /\ UNCHANGED << build_vars, fetch_vars, extract_vars, compiler_vars, flag_vars >>

\* After the loops: fatal() when test_pass is False.
audit_end ==
    /\ apc = "sweep"
    /\ to_examine = {}
    /\ apc' = "done"
    /\ aresult' = IF test_pass THEN "passed" ELSE "fatal"
    /\ UNCHANGED << installed_files, inspected, test_pass, lib_vars >>
    /\ UNCHANGED << build_vars, fetch_vars, extract_vars, compiler_vars, flag_vars >>

NextAudit ==
    \/ audit_begin
    \/ audit_file
    \/ audit_end

InitAudit ==
    /\ platform \in { "linux", "mac" }
    /\ BuildIdle
    /\ cmdline = [build_type |-> None, skip_sanitizers |-> FALSE,
                  dependencies |-> << >>, skip |-> << >>]
    /\ FetchAtRest
    /\ ExtractAtRest
    /\ LibsAtRest
    /\ CompilerAtRest
    /\ FlagsAtRest
    /\ apc = "idle"
    /\ installed_files \in FileSets(MaxFiles)
    /\ inspected = {}
    /\ test_pass = TRUE
    /\ aresult = None

SpecAudit == InitAudit /\ [][NextAudit]_vars

---------------------------------------------------------------------------
(* The choice of the compilers: detect_linuxbrew, find_compiler_by_type,   *)
(* set_compiler, and set_build_type which calls it                         *)

\* What the bin directory of a root holds: nothing (there is no such directory), the
\* C compilers and not the C++ ones, all four compilers, or all four under names
\* that end with SUFFIX.
installed_names(kind) ==
    CASE kind = "none" -> {}
      [] kind = "cc" -> { "gcc", "clang" }
      [] kind = "all" -> { "gcc", "g++", "clang", "clang++" }
      [] kind = "suffixed" -> { "gcc", "g++", "clang", "clang++" }

\* os.path.exists(path)
path_exists(path) ==
    /\ path.root \in Roots
    /\ path.name \in installed_names(compiler_fs[path.root])
    /\ path.suffix = SUFFIX <=> compiler_fs[path.root] = "suffixed"

\* os.path.isdir(os.path.join(dir, 'bin'))
isdir_bin(dir) == compiler_fs[dir] # "none"

\* Bound: up to MaxEmptyRoots roots hold no compilers.
MaxEmptyRoots == 2

\* The file systems tried: every root holds all compilers or none, or all roots hold
\* all compilers but one, which lacks the C++ compilers or has the suffixed names.
CompilerFileSystems ==
    { fs \in [Roots -> { "none", "all" }] :
        Cardinality({ r \in Roots : fs[r] = "none" }) <= MaxEmptyRoots }
    \cup { [r \in Roots |-> IF r = odd THEN kind ELSE "all"] :
             odd \in Roots, kind \in { "cc", "suffixed" } }

\* The constructor arguments of CompilerChoice, and YB_LINUXBREW_DIR.
CompilerChoices ==
    { [NoChoice EXCEPT !.module = "compiler_choice", !.single_compiler_type = single,
                       !.compiler_prefix = prefix, !.compiler_suffix = suffix,
                       !.devtoolset = devtoolset, !.use_compiler_wrapper = wrapper[1],
                       !.use_ccache = wrapper[2], !.YB_LINUXBREW_DIR = brew] :
        single \in { None, "gcc", "clang" }, prefix \in { None, PREFIX },
        suffix \in { "", SUFFIX }, devtoolset \in { None, "8", "9" },
        wrapper \in { << FALSE, FALSE >>, << TRUE, TRUE >> },
        brew \in { None, LINUXBREW } }

\* The variables that the methods of Builder read.
BuilderChoices ==
    { [NoChoice EXCEPT !.YB_GCC_PREFIX = gcc_prefix, !.YB_CLANG_PREFIX = clang_prefix,
                       !.YB_LINUXBREW_DIR = brew] :
        gcc_prefix \in { None, PREFIX }, clang_prefix \in { None, PREFIX },
        brew \in { None, LINUXBREW } }

\* using_linuxbrew
using_linuxbrew == linuxbrew_dir \notin { "unset", None }

\* use_only_gcc that does not look at the devtoolset.
use_only_gcc_single_type == choice.single_compiler_type = "gcc"

\* use_only_clang, use_only_gcc
use_only_clang == is_mac \/ choice.single_compiler_type = "clang"
use_only_gcc == choice.devtoolset # None \/ choice.single_compiler_type = "gcc"

\* where_is_program: the first directory of PATH that holds the program.
RECURSIVE where_is_program(_, _)
where_is_program(path, program_name) ==
    IF path = << >>
    THEN NoPath
    ELSE LET full_path == bin_path(Head(path), program_name, "")
         IN  IF path_exists(full_path)
             THEN full_path
             ELSE where_is_program(Tail(path), program_name)

\* which(program): as shutil.which, NoPath when PATH has no such program.
which(program) == where_is_program(environ.PATH, program)

\* What a find method gives: a pair of paths, or fatal().
Found(c_compiler_path, cxx_compiler_path) ==
    [result |-> "ok", cc |-> c_compiler_path, cxx |-> cxx_compiler_path]
Fatal == [result |-> "fatal", cc |-> NoPath, cxx |-> NoPath]

\* The compilers of a directory: fatal() when it has no bin directory.
gcc_in(gcc_dir, suffix) ==
    IF ~isdir_bin(gcc_dir)
    THEN Fatal
    ELSE Found(bin_path(gcc_dir, "gcc", suffix), bin_path(gcc_dir, "g++", suffix))

\* which_must_exist for both compilers.
gcc_on_path(c_compiler, cxx_compiler) ==
    IF which(c_compiler) = NoPath \/ which(cxx_compiler) = NoPath
    THEN Fatal
    ELSE Found(which(c_compiler), which(cxx_compiler))

\* do_find_gcc that looks at Linuxbrew before YB_GCC_PREFIX.
do_find_gcc_linuxbrew_first(c_compiler, cxx_compiler) ==
    IF using_linuxbrew
    THEN gcc_in(linuxbrew_dir, "")
    ELSE IF choice.YB_GCC_PREFIX # None
    THEN gcc_in(choice.YB_GCC_PREFIX, "")
    ELSE Found(which(c_compiler), which(cxx_compiler))

\* Builder.do_find_gcc: YB_GCC_PREFIX, then Linuxbrew, then PATH.
Builder_do_find_gcc(c_compiler, cxx_compiler) ==
    IF choice.YB_GCC_PREFIX # None
    THEN gcc_in(choice.YB_GCC_PREFIX, "")
    ELSE IF using_linuxbrew
    THEN gcc_in(linuxbrew_dir, "")
    ELSE Found(which(c_compiler), which(cxx_compiler))

\* CompilerChoice.do_find_gcc: Linuxbrew, then compiler_prefix, then PATH.
CompilerChoice_do_find_gcc(c_compiler, cxx_compiler) ==
    IF using_linuxbrew
    THEN gcc_in(linuxbrew_dir, choice.compiler_suffix)
    ELSE IF choice.compiler_prefix # None
    THEN gcc_in(choice.compiler_prefix, choice.compiler_suffix)
    ELSE gcc_on_path(c_compiler, cxx_compiler)

find_gcc ==
    IF choice.module = "compiler_choice"
    THEN CompilerChoice_do_find_gcc("gcc", "g++")
    ELSE Builder_do_find_gcc("gcc", "g++")

\* The candidate directories of find_clang, in order.
candidate_dirs == << CLANG_TOOLCHAIN, USR >>

\* The first candidate directory that holds clang, or None.
RECURSIVE first_candidate(_, _, _)
first_candidate(dirs, suffix, need_isdir) ==
    IF dirs = << >>
    THEN None
    ELSE IF /\ need_isdir => isdir_bin(Head(dirs))
            /\ path_exists(bin_path(Head(dirs), "clang", suffix))
    THEN Head(dirs)
    ELSE first_candidate(Tail(dirs), suffix, need_isdir)

clang_in(clang_prefix, suffix) ==
    IF clang_prefix = None
    THEN Fatal
    ELSE Found(bin_path(clang_prefix, "clang", suffix),
               bin_path(clang_prefix, "clang++", suffix))

\* Builder.find_clang: YB_CLANG_PREFIX, then the candidate directories.
Builder_find_clang ==
    IF choice.YB_CLANG_PREFIX # None
    THEN clang_in(choice.YB_CLANG_PREFIX, "")
    ELSE clang_in(first_candidate(candidate_dirs, "", TRUE), "")

\* CompilerChoice.find_clang: compiler_prefix, then the candidate directories.
CompilerChoice_find_clang ==
    IF choice.compiler_prefix # None
    THEN clang_in(choice.compiler_prefix, choice.compiler_suffix)
    ELSE clang_in(first_candidate(candidate_dirs, choice.compiler_suffix, FALSE),
                  choice.compiler_suffix)

find_clang ==
    IF choice.module = "compiler_choice" THEN CompilerChoice_find_clang ELSE Builder_find_clang

\* The compiler types that the program asks for.
CompilerTypes == { "gcc", "clang" }

\* What the find method of a compiler type gives.
find_compilers(type) == IF type = "gcc" THEN find_gcc ELSE find_clang

\* '/devtoolset-%d/' % devtoolset in compiler_path: the path is under the root of that
\* devtoolset.
devtoolset_substring_in(devtoolset, compiler_path) ==
    compiler_path.root = DEVTOOLSET /\ devtoolset = "8"

\* validate_compiler_path without the devtoolset check.
validate_compiler_path_exists_only(compiler_path) ==
    IF ~path_exists(compiler_path) THEN "IOError" ELSE "ok"

\* validate_compiler_path: "ok", or the error it raises.
validate_compiler_path(compiler_path) ==
    IF choice.devtoolset # None /\ ~devtoolset_substring_in(choice.devtoolset, compiler_path)
    THEN "ValueError"
    ELSE IF ~path_exists(compiler_path)
    THEN "IOError"
    ELSE "ok"

\* The type is not allowed: lines 82-83 and 86-87.
not_allowed(type) ==
    \/ type = "gcc" /\ use_only_clang
    \/ type = "clang" /\ use_only_gcc

\* Builder.find_compiler_by_type: how it ends, and cc and cxx after it.
Builder_find_compiler_by_type(type) ==
    LET compilers == find_compilers(type) IN
    IF compilers.result # "ok"
    THEN [result |-> compilers.result, cc |-> cc, cxx |-> cxx]
    ELSE IF ~path_exists(compilers.cc) \/ ~path_exists(compilers.cxx)
    THEN [result |-> "fatal", cc |-> cc, cxx |-> cxx]
    ELSE compilers

\* CompilerChoice.find_compiler_by_type: how it ends, and cc and cxx after it.
CompilerChoice_find_compiler_by_type(type) ==
    LET compilers == find_compilers(type) IN
    IF not_allowed(type)
    THEN [result |-> "ValueError", cc |-> cc, cxx |-> cxx]
    ELSE IF compilers.result # "ok"
    THEN [result |-> compilers.result, cc |-> cc, cxx |-> cxx]
    ELSE IF ~path_exists(compilers.cc) \/ ~path_exists(compilers.cxx)
    THEN [result |-> "fatal", cc |-> cc, cxx |-> cxx]
    ELSE IF validate_compiler_path(compilers.cc) # "ok"
    THEN [result |-> validate_compiler_path(compilers.cc), cc |-> compilers.cc, cxx |-> cxx]
    ELSE IF validate_compiler_path(compilers.cxx) # "ok"
    THEN [compilers EXCEPT !.result = validate_compiler_path(compilers.cxx)]
    ELSE compilers

find_compiler_by_type_outcome(type) ==
    IF choice.module = "compiler_choice"
    THEN CompilerChoice_find_compiler_by_type(type)
    ELSE Builder_find_compiler_by_type(type)

\* The methods are called after detect_linuxbrew, and as long as none has ended in an
\* error: an error ends the run.
may_call ==
    /\ linuxbrew_dir # "unset"
    /\ ccall.result \in { None, "ok" }

\* CompilerChoice.detect_linuxbrew gives up Linuxbrew when a single compiler type, a
\* prefix or a suffix is given; Builder.detect_linuxbrew only when not on Linux.
linuxbrew_ruled_out ==
    \/ ~is_linux
    \/ /\ choice.module = "compiler_choice"
       /\ \/ choice.single_compiler_type # None
          \/ choice.compiler_prefix # None
          \/ choice.compiler_suffix # ""

detect_linuxbrew ==
    /\ linuxbrew_dir = "unset"
    /\ linuxbrew_dir' = IF linuxbrew_ruled_out THEN None ELSE choice.YB_LINUXBREW_DIR
    /\ environ' = IF linuxbrew_dir' # None
                  THEN [environ EXCEPT !.PATH = << linuxbrew_dir' >> \o @]
                  ELSE environ
    /\ ccall' = [op |-> "detect_linuxbrew", arg |-> None, result |-> "ok"]
    /\ UNCHANGED << choice, compiler_fs, compiler_type, cc, cxx >>
    /\ UNCHANGED << build_vars, fetch_vars, extract_vars, lib_vars, audit_vars, flag_vars >>

\* A call of find_compiler_by_type by itself.
find_compiler_by_type ==
    /\ may_call
    /\ \E type \in CompilerTypes :
          LET outcome == find_compiler_by_type_outcome(type) IN
          /\ cc' = outcome.cc
          /\ cxx' = outcome.cxx
          /\ ccall' = [op |-> "find_compiler_by_type", arg |-> type,
                       result |-> outcome.result]
    /\ UNCHANGED << choice, compiler_fs, linuxbrew_dir, compiler_type, environ >>
    /\ UNCHANGED << build_vars, fetch_vars, extract_vars, lib_vars, audit_vars, flag_vars >>

\* The scripts that stand for the compilers when use_compiler_wrapper is set.
WRAPPER_CC == bin_path("python/yugabyte_db_thirdparty", "compiler_wrapper_cc.py", "")
WRAPPER_CXX == bin_path("python/yugabyte_db_thirdparty", "compiler_wrapper_cxx.py", "")

\* The end of set_compiler: CC and CXX, and what goes with them.
exported(env, c_compiler, cxx_compiler) ==
    IF choice.use_compiler_wrapper
    THEN [env EXCEPT !.YB_THIRDPARTY_REAL_C_COMPILER = c_compiler,
                     !.YB_THIRDPARTY_REAL_CXX_COMPILER = cxx_compiler,
                     !.YB_THIRDPARTY_USE_CCACHE = IF choice.use_ccache THEN "1" ELSE "0",
                     !.CC = WRAPPER_CC,
                     !.CXX = WRAPPER_CXX]
    ELSE [env EXCEPT !.CC = c_compiler, !.CXX = cxx_compiler]

\* set_compiler that takes clang on macOS whatever the type asked for.
set_compiler_called_taking_clang(op, arg, type) ==
    LET taken == IF is_mac THEN "clang" ELSE type
        outcome == find_compiler_by_type_outcome(taken)
        env == IF choice.module = "compiler_choice"
               THEN environ
               ELSE [environ EXCEPT !.YB_COMPILER_TYPE = type]
    IN  /\ compiler_type' = taken
        /\ cc' = outcome.cc
        /\ cxx' = outcome.cxx
        /\ environ' = IF outcome.result = "ok"
                      THEN exported(env, outcome.cc, outcome.cxx)
                      ELSE env
        /\ ccall' = [op |-> op, arg |-> arg, result |-> outcome.result]

\* set_compiler(type), called as op(arg): on macOS any type but clang is refused;
\* compiler_type is set (Builder exports YB_COMPILER_TYPE too), then
\* find_compiler_by_type runs, and CC and CXX are exported when it returns.
set_compiler_called(op, arg, type) ==
    IF is_mac /\ type # "clang"
    THEN /\ ccall' = [op |-> op, arg |-> arg, result |-> "ValueError"]
         /\ UNCHANGED << compiler_type, cc, cxx, environ >>
    ELSE LET outcome == find_compiler_by_type_outcome(type)
             env == IF choice.module = "compiler_choice"
                    THEN environ
                    ELSE [environ EXCEPT !.YB_COMPILER_TYPE = type]
         IN  /\ compiler_type' = IF is_mac THEN "clang" ELSE type
             /\ cc' = outcome.cc
             /\ cxx' = outcome.cxx
             /\ environ' = IF outcome.result = "ok"
                           THEN exported(env, outcome.cc, outcome.cxx)
                           ELSE env
             /\ ccall' = [op |-> op, arg |-> arg, result |-> outcome.result]

set_compiler ==
    /\ may_call
    /\ \E type \in CompilerTypes : set_compiler_called("set_compiler", type, type)
    /\ UNCHANGED << choice, compiler_fs, linuxbrew_dir >>
    /\ UNCHANGED << build_vars, fetch_vars, extract_vars, lib_vars, audit_vars, flag_vars >>

\* Builder.building_with_clang
Builder_building_with_clang(bt) ==
    \/ is_mac
    \/ bt \in { BUILD_TYPE_ASAN, BUILD_TYPE_TSAN, BUILD_TYPE_CLANG_UNINSTRUMENTED }

\* building_with_clang that goes by the restrictions alone.
building_with_clang_restricted_only(bt) == is_mac \/ choice.single_compiler_type = "clang"

\* building_with_clang that looks at the restriction to gcc first.
building_with_clang_only_gcc_first(bt) ==
    IF use_only_gcc
    THEN FALSE
    ELSE IF use_only_clang
    THEN TRUE
    ELSE bt \in { BUILD_TYPE_ASAN, BUILD_TYPE_TSAN, BUILD_TYPE_CLANG_UNINSTRUMENTED }

\* CompilerChoice.building_with_clang(build_type)
CompilerChoice_building_with_clang(bt) ==
    IF use_only_clang
    THEN TRUE
    ELSE IF use_only_gcc
    THEN FALSE
    ELSE bt \in { BUILD_TYPE_ASAN, BUILD_TYPE_TSAN, BUILD_TYPE_CLANG_UNINSTRUMENTED }

building_with_clang(bt) ==
    IF choice.module = "compiler_choice"
    THEN CompilerChoice_building_with_clang(bt)
    ELSE Builder_building_with_clang(bt)

\* The build types that run() enters on this platform.
entered_by_run(bt) ==
    bt \in { BUILD_TYPE_UNINSTRUMENTED, BUILD_TYPE_ASAN, BUILD_TYPE_TSAN } => is_linux

\* set_build_type(build_type): the build type is entered, and the compiler that
\* building_with_clang tells is set.
set_build_type ==
    /\ may_call
    /\ \E bt \in BuildTypeSet :
          /\ entered_by_run(bt)
          /\ build_type' = bt
          /\ set_compiler_called("set_build_type", bt,
                                 IF building_with_clang(bt) THEN "clang" ELSE "gcc")
    /\ UNCHANGED << choice, compiler_fs, linuxbrew_dir >>
    /\ UNCHANGED << env_vars, fs_vars, saved_git, last, args, selected_dependencies, pc,
                    run_step, dep_index, entered, invoked, error >>
    /\ UNCHANGED << fetch_vars, extract_vars, lib_vars, audit_vars, flag_vars >>

NextCompiler ==
    \/ detect_linuxbrew
    \/ find_compiler_by_type
    \/ set_compiler
    \/ set_build_type

InitCompiler ==
    /\ platform \in { "linux", "mac" }
    /\ BuildIdle
    /\ cmdline = [build_type |-> None, skip_sanitizers |-> FALSE,
                  dependencies |-> << >>, skip |-> << >>]
    /\ FetchAtRest
    /\ ExtractAtRest
    /\ LibsAtRest
    /\ AuditAtRest
    /\ FlagsAtRest
    /\ choice \in CompilerChoices \cup BuilderChoices
    /\ compiler_fs \in CompilerFileSystems
    /\ linuxbrew_dir = "unset"
    /\ compiler_type = None
    /\ cc = NoPath
    /\ cxx = NoPath
    /\ environ = NoEnviron
    /\ ccall = NoCCall

SpecCompiler == InitCompiler /\ [][NextCompiler]_vars

---------------------------------------------------------------------------
(* The flags of a build type: build() up to its loop, and the exports of   *)
(* build_dependency                                                        *)

\* add_linuxbrew_flags: what it appends to ld_flags.
linuxbrew_ld_flags ==
    IF using_linuxbrew
    THEN << FlagOf("-Wl,-dynamic-linker=", << linuxbrew_dir, "lib", "ld.so" >>),
            FlagOf("-L", << linuxbrew_dir, "lib" >>),
            FlagOf("-Wl,-rpath,", << linuxbrew_dir, "lib" >>) >>
    ELSE << >>

\* init_flags that appends to the lists as they are.
init_flags_appending ==
    [preprocessor_flags |->
         flags.preprocessor_flags \o << FlagOf("-I", << "installed", "common", "include" >>) >>,
     ld_flags |->
         flags.ld_flags \o linuxbrew_ld_flags
         \o << FlagOf("-L", << "installed", "common", "lib" >>) >>
         \o (IF is_linux THEN << FlagOf("-Wl,-rpath,", << "/tmp/room_for_rpath" >>) >>
                         ELSE << >>),
     compiler_flags |->
         flags.compiler_flags \o << FlagOf("-I", << "installed", "common", "include" >>) >>
         \o << Flag("-fno-omit-frame-pointer"), Flag("-fPIC"), Flag("-O2"), Flag("-Wall") >>
         \o (IF is_mac THEN << Flag("-mmacosx-version-min=10.14") >> ELSE << >>),
     c_flags |-> flags.c_flags,
     cxx_flags |->
         flags.cxx_flags \o (IF is_mac THEN << Flag("-stdlib=libc++") >> ELSE << >>)
         \o << Flag("-std=c++14") >>,
     libs |-> flags.libs \o (IF is_mac THEN << Flag("-lc++"), Flag("-lc++abi") >> ELSE << >>)]

\* init_flags: the lists are emptied and filled for the platform.
init_flags ==
    [preprocessor_flags |-> << FlagOf("-I", << "installed", "common", "include" >>) >>,
     ld_flags |->
         linuxbrew_ld_flags
         \o << FlagOf("-L", << "installed", "common", "lib" >>) >>
         \o (IF is_linux THEN << FlagOf("-Wl,-rpath,", << "/tmp/room_for_rpath" >>) >>
                         ELSE << >>),
     compiler_flags |->
         << FlagOf("-I", << "installed", "common", "include" >>) >>
         \o << Flag("-fno-omit-frame-pointer"), Flag("-fPIC"), Flag("-O2"), Flag("-Wall") >>
         \o (IF is_mac THEN << Flag("-mmacosx-version-min=10.14") >> ELSE << >>),
     c_flags |-> << >>,
     cxx_flags |->
         (IF is_mac THEN << Flag("-stdlib=libc++") >> ELSE << >>) \o << Flag("-std=c++14") >>,
     libs |-> IF is_mac THEN << Flag("-lc++"), Flag("-lc++abi") >> ELSE << >>]

\* Lines 779-786: what setup_compiler appends to compiler_flags for the build type.
sanitizer_flags(bt) ==
    CASE bt = BUILD_TYPE_ASAN ->
             << Flag("-fsanitize=address"), Flag("-fsanitize=undefined"),
                Flag("-DADDRESS_SANITIZER") >>
      [] bt = BUILD_TYPE_TSAN -> << Flag("-fsanitize=thread"), Flag("-DTHREAD_SANITIZER") >>
      [] OTHER -> << >>

\* setup_compiler for the build type: init_flags, and for clang off macOS the
\* sanitizer flags and the libc++ of the build type.
setup_compiler(bt) ==
    LET f == init_flags
        stdlib_path == << "installed", bt, "libcxx" >>
    IN  IF is_mac \/ ~Builder_building_with_clang(bt)
        THEN f
        ELSE [f EXCEPT
                !.compiler_flags =
                    @ \o sanitizer_flags(bt)
                      \o (IF using_linuxbrew
                          THEN << FlagOf("--gcc-toolchain=", << linuxbrew_dir >>) >>
                          ELSE << >>),
                !.cxx_flags =
                    << Flag("-Wno-error=unused-command-line-argument"),
                       Flag("-stdlib=libc++"), Flag("-isystem"),
                       FlagOf("", stdlib_path \o << "include", "c++", "v1" >>),
                       Flag("-nostdinc++") >> \o @,
                !.ld_flags =
                    << FlagOf("-Wl,-rpath,", stdlib_path \o << "lib" >>),
                       FlagOf("-L", stdlib_path \o << "lib" >>) >> \o @]

\* The position of a build type in the calls of run().
run_index(bt) == CHOOSE i \in 1..Len(RunCalls) : RunCalls[i] = bt

\* build(build_type) up to its loop: COMMON first, then build types in the order of
\* run(), some of them passed over; set_build_type, setup_compiler, add_rpath.
flags_build ==
    /\ \E bt \in BuildTypeSet :
          /\ entered_by_run(bt)
          /\ IF build_type = None
             THEN bt = BUILD_TYPE_COMMON
             ELSE run_index(bt) > run_index(build_type)
          /\ build_type' = bt
          /\ flags' = [setup_compiler(bt) EXCEPT
                          !.ld_flags = @ \o << FlagOf("-Wl,-rpath,",
                                                      << "installed", bt, "lib" >>) >>]
    /\ UNCHANGED flags_environ
    /\ UNCHANGED << env_vars, fs_vars, saved_git, last, args, selected_dependencies, pc,
                    run_step, dep_index, entered, invoked, error >>
    /\ UNCHANGED << fetch_vars, extract_vars, lib_vars, audit_vars, compiler_vars >>

\* The flags that a dependency adds of its own: none, or a flag for warnings.
AdditionalFlags == { << >>, << Flag("-Wno-error") >> }

\* Lines 813-827 of build_dependency, for a dependency of the build type's group: the
\* flags are exported, and the dependency is built.
flags_build_dependency ==
    /\ build_type # None
    /\ \E dep \in DepNames, additional_cxx \in AdditionalFlags,
          additional_c \in AdditionalFlags :
          /\ builds_in(dep, build_type)
          /\ flags_environ' =
                 [CXXFLAGS |-> flags.compiler_flags \o flags.cxx_flags \o additional_cxx,
                  CFLAGS |-> flags.compiler_flags \o flags.c_flags \o additional_c,
                  LDFLAGS |-> flags.ld_flags,
                  LIBS |-> flags.libs,
                  CPPFLAGS |-> flags.preprocessor_flags,
                  dep |-> dep,
                  build_type |-> build_type]
    /\ UNCHANGED flags
    /\ UNCHANGED << build_vars, fetch_vars, extract_vars, lib_vars, audit_vars,
                    compiler_vars >>

NextFlags ==
    \/ flags_build
    \/ flags_build_dependency

InitFlags ==
    /\ platform \in { "linux", "mac" }
    /\ BuildIdle
    /\ cmdline = [build_type |-> None, skip_sanitizers |-> FALSE,
                  dependencies |-> << >>, skip |-> << >>]
    /\ FetchAtRest
    /\ ExtractAtRest
    /\ LibsAtRest
    /\ AuditAtRest
    /\ FlagsAtRest
    /\ choice = NoChoice
    /\ compiler_fs = [r \in Roots |-> "none"]
    /\ linuxbrew_dir \in IF is_linux THEN { None, LINUXBREW } ELSE { None }
    /\ compiler_type = None
    /\ cc = NoPath
    /\ cxx = NoPath
    /\ environ = NoEnviron
    /\ ccall = NoCCall

SpecFlags == InitFlags /\ [][NextFlags]_vars

---------------------------------------------------------------------------
(* Builder.init alone, for command lines with longer lists of names.       *)

\* Bound on the length of the list of dependencies and of the --skip list.
MaxSelectionArgs == 2

SelectionArgLists == UNION { [1..n -> ArgNames] : n \in 0..MaxSelectionArgs }

InitSelection ==
    /\ BeforeMain
    /\ FetchAtRest
    /\ ExtractAtRest
    /\ MoreAtRest
    /\ cmdline \in [build_type : { None }, skip_sanitizers : { FALSE },
                     dependencies : SelectionArgLists, skip : SelectionArgLists]

SpecSelection == InitSelection /\ [][main_init]_vars

---------------------------------------------------------------------------
(* Properties                                                              *)

\* The order in which the build types are to be processed.
BuildOrder ==
    << "common", "uninstrumented", "clang_uninstrumented", "asan", "tsan" >>

\* The place of a build type in that order.
Position(bt) == CHOOSE i \in 1..Len(BuildOrder) : BuildOrder[i] = bt

\* The last step was a call of build_dependency.
IsCall == last.op = "build_dependency"
NextIsCall == last'.op = "build_dependency"

\* The dependencies the command line leaves selected.
SelectedByCommandLine ==
    { d \in DepNames :
        /\ cmdline.dependencies # << >> => d \in Range(cmdline.dependencies)
        /\ cmdline.skip # << >> => d \notin Range(cmdline.skip) }

\* C1: the build types are processed one after the other in the order common,
\* uninstrumented, clang_uninstrumented, asan, tsan, each at most once; a dependency
\* is built only in the build type entered last, so every build of one build type is
\* over before a build of the next begins; and the audit of the installed files
\* starts only after run() has made the last of its build() calls and the last
\* build type entered has gone through all the selected dependencies.
C1_VariantsInOrder ==
    /\ [](/\ \A i, j \in 1..Len(entered) :
                i < j => Position(entered[i]) < Position(entered[j])
          /\ \A i, j \in 1..Len(invoked) :
                i < j => Position(invoked[i][2]) <= Position(invoked[j][2])
          /\ \A i \in 1..Len(invoked) : invoked[i][2] \in Range(entered)
          /\ pc = "dep" => build_type = entered[Len(entered)]
          /\ pc = "audit" => run_step > Len(RunCalls))
    /\ [][/\ invoked' # invoked /\ invoked' # << >> =>
                /\ entered' = entered
                /\ \E d \in DepNames :
                      invoked' = Append(invoked, << d, entered[Len(entered)] >>)
          /\ pc' = "audit" /\ pc # "audit" =>
                /\ pc = "build"
                /\ entered # << >> => dep_index > Len(selected_dependencies)]_vars

\* A run on Linux reaches the audit after all five build types, with builds in the
\* first and in the last of them.
C1_Witness ==
    /\ pc = "audit"
    /\ entered = BuildOrder
    /\ Len(invoked) >= 3
    /\ invoked[1][2] = BUILD_TYPE_COMMON
    /\ invoked[Len(invoked)][2] = BUILD_TYPE_TSAN

\* C2: in the common build type only selected dependencies of the common group are
\* built, in every other build type only selected dependencies of the instrumented
\* group; a dependency the command line leaves out is built in no build type.
C2_GroupAndSelection ==
    \A i \in 1..Len(invoked) :
        LET dep == invoked[i][1]
            bt == invoked[i][2]
        IN  /\ dep \in SelectedByCommandLine
            /\ bt = BUILD_TYPE_COMMON => build_group(dep) = BUILD_GROUP_COMMON
            /\ bt # BUILD_TYPE_COMMON => build_group(dep) = BUILD_GROUP_INSTRUMENTED

\* With one instrumented dependency skipped, the common one is built in the common
\* build type and the other instrumented one in asan.
C2_Witness ==
    /\ cmdline.skip = << "tcmalloc" >>
    /\ \E i, j \in 1..Len(invoked) :
          /\ invoked[i] = << "openssl", BUILD_TYPE_COMMON >>
          /\ invoked[j] = << "abseil", BUILD_TYPE_ASAN >>

\* The key of the call just made, and of the call being made.
CallKey == << last.build_type, last.dep >>
NextCallKey == << last'.build_type, last'.dep >>

\* C3: a stamp file changes only in a call of build_dependency for its own dependency
\* and build type in which the dependency's build() was called and returned without
\* an error, and what is written is the stamp of the tracked files; a call that fails
\* in the stamp computation, the download, the preparation of the build directory or
\* the dependency's build() leaves every stamp file as it was.
C3_StampOnlyAfterSuccess ==
    /\ [][stamp_file' # stamp_file =>
             /\ NextIsCall
             /\ last'.adapter /\ ~last'.adapter_failed
             /\ \A k \in DOMAIN stamp_file :
                   stamp_file'[k] # stamp_file[k] => k = NextCallKey
             /\ stamp_file'[NextCallKey] =
                   get_build_stamp_for_dependency(git, last'.dep)]_vars
    /\ [][(/\ NextIsCall
           /\ \/ last'.rebuild = None
              \/ last'.adapter_failed
              \/ last'.rebuild = "yes" /\ last'.did.removed /\ ~last'.did.marked
              \/ last'.stage \in {"stamp", "download", "prepare", "adapter"}) =>
             /\ stamp_file' = stamp_file
             /\ pc' = "failed"]_vars

\* The dependency's build() fails in a rebuild that a stale stamp file called for:
\* the stale stamp is still there.
C3_Witness ==
    /\ IsCall
    /\ last.adapter_failed
    /\ last.had_stamp /\ ~last.same_stamp
    /\ stamp_file[CallKey] # NoValue
    /\ stamp_file[CallKey] # get_build_stamp_for_dependency(git, last.dep)

\* C4: should_rebuild_dependency returns False exactly when the source directory
\* exists and the stamp file holds the stamp just computed; it returns True when the
\* source directory is absent, when there is no stamp file, and when the stamp file
\* holds another stamp.
C4_ShouldRebuildValue ==
    (IsCall /\ last.rebuild # None) =>
        /\ last.rebuild = "no" <=> (last.had_src /\ last.same_stamp)
        /\ ~last.had_src => last.rebuild = "yes"
        /\ ~last.had_stamp => last.rebuild = "yes"
        /\ (last.had_stamp /\ ~last.same_stamp) => last.rebuild = "yes"

\* A call that returns False: the source directory is there and the stamps agree.
C4_Witness ==
    /\ IsCall
    /\ last.rebuild = "no"
    /\ last.had_src /\ last.had_stamp /\ last.same_stamp

\* C5 as written: build_dependency does not rebuild (no download, no build, no stamp
\* written) whenever the stamp file holds the stamp just computed, and rebuilds
\* whenever the two differ.
C5_Original ==
    (IsCall /\ last.rebuild # None) =>
        (last.same_stamp <=> last.result = "not_rebuilding")

\* C5: build_dependency returns without rebuilding (no download, no call of the
\* dependency's build(), no file changed) exactly when the stamp file holds the stamp
\* just computed and the source directory exists; otherwise it goes on to the
\* download.
C5_RebuildDecision ==
    /\ []((IsCall /\ last.rebuild # None) =>
             /\ last.result = "not_rebuilding" <=> (last.same_stamp /\ last.had_src)
             /\ last.result = "not_rebuilding" => (last.did = NoValue /\ ~last.adapter)
             /\ last.result # "not_rebuilding" => last.did # NoValue)
    /\ [][(NextIsCall /\ last'.result = "not_rebuilding") =>
             (UNCHANGED fs_vars /\ invoked' = invoked /\ pc' = "dep")]_vars

\* A rebuild although the stamp file holds the stamp just computed: the source
\* directory is gone.
C5_Witness ==
    /\ IsCall
    /\ last.same_stamp /\ ~last.had_src
    /\ last.result = "built"

\* The tracked files of dep are, in g2, what they were in g1: contents, index,
\* committed contents and history.
SameTrackedState(g1, g2, dep) ==
    \A f \in input_files_for_stamp(dep) :
        /\ g1.work[f] = g2.work[f]
        /\ g1.index[f] = g2.index[f]
        /\ g1.head[f] = g2.head[f]
        /\ g1.log[f] = g2.log[f]

\* The content of a tracked file of dep is, in g2, not what it was in g1.
ContentChanged(g1, g2, dep) ==
    \E f \in input_files_for_stamp(dep) : g1.work[f] # g2.work[f]

\* C6 as written: after a stamp has been saved for a dependency and a build type, a
\* call that returns False changes no stamp file; every call returns False as long as
\* the tracked files and their version-control state are what they were at the save;
\* and the call returns True once the content of a tracked file is no longer what it
\* was at the save.
C6_Original ==
    [][(/\ NextIsCall
        /\ last'.rebuild # None
        /\ saved_git[NextCallKey] # NoValue) =>
          /\ last'.result = "not_rebuilding" => stamp_file' = stamp_file
          /\ SameTrackedState(saved_git[NextCallKey], git, last'.dep) =>
                last'.rebuild = "no"
          /\ ContentChanged(saved_git[NextCallKey], git, last'.dep) =>
                last'.rebuild = "yes"]_vars

\* C6: after a stamp has been saved for a dependency and a build type, a call that
\* returns False changes no stamp file; every call returns False as long as the
\* tracked files and their version-control state are what they were at the save and
\* neither the stamp file nor the source directory has been removed; and the call
\* returns True once the content of a tracked file is no longer what it was at the
\* save.
C6_StableUntilChange ==
    [][(/\ NextIsCall
        /\ last'.rebuild # None
        /\ saved_git[NextCallKey] # NoValue) =>
          /\ last'.result = "not_rebuilding" => stamp_file' = stamp_file
          /\ (/\ SameTrackedState(saved_git[NextCallKey], git, last'.dep)
              /\ stamp_file[NextCallKey] # NoValue
              /\ src_dir[last'.dep]) =>
                last'.rebuild = "no"
          /\ ContentChanged(saved_git[NextCallKey], git, last'.dep) =>
                last'.rebuild = "yes"]_vars

\* A call answers True, with the stamp file and the source directory in place,
\* because the content of a tracked file is not what it was when the stamp was
\* saved; the rebuild then fails, so the saved stamp is still the old one.
C6_Witness ==
    /\ IsCall
    /\ last.rebuild = "yes"
    /\ last.result = "fatal"
    /\ last.had_stamp /\ last.had_src
    /\ saved_git[CallKey] # NoValue
    /\ ContentChanged(saved_git[CallKey], git, last.dep)

\* C7: when the dependency's build() fails, the run ends there with an error: the
\* stamp files are left as they were, and the only step that follows is the exit of
\* the process, with no further dependency or build type built, no file changed and
\* no audit.
C7_AdapterFailureFatal ==
    /\ [][(NextIsCall /\ last'.adapter_failed) =>
             /\ pc' = "failed"
             /\ error' = "adapter"
             /\ stamp_file' = stamp_file]_vars
    /\ [][pc = "failed" =>
             /\ pc' = "main"
             /\ invoked' = << >>
             /\ UNCHANGED fs_vars]_vars
    /\ [](pc = "failed" /\ error = "adapter" => IsCall /\ last.adapter_failed)

\* The first instrumented dependency fails to build in the uninstrumented build
\* type, with another dependency and other build types still to come.
C7_Witness ==
    /\ pc = "failed"
    /\ error = "adapter"
    /\ build_type = BUILD_TYPE_UNINSTRUMENTED
    /\ args.build_type = None
    /\ dep_index < Len(selected_dependencies)
    /\ stamp_file[<< build_type, current_dep >>] = NoValue

\* The stamp file of dep in build type bt holds the stamp of the tracked files: the
\* dependency has been built in bt, in this run or in an earlier one, from the
\* tracked files as they are.
BuiltIn(dep, bt) == stamp_file[<< bt, dep >>] = get_build_stamp_for_dependency(git, dep)

\* run() makes the build() call of build type bt on this platform with these flags.
PlatformBuilds(bt) ==
    /\ bt \in {BUILD_TYPE_UNINSTRUMENTED, BUILD_TYPE_ASAN, BUILD_TYPE_TSAN} => is_linux
    /\ bt \in {BUILD_TYPE_ASAN, BUILD_TYPE_TSAN} => ~cmdline.skip_sanitizers

\* The selected dependencies of a build group.
SelectedOfGroup(group) == { d \in SelectedByCommandLine : build_group(d) = group }

\* C8 as written: a run with --build-type=T that reaches the audit has built the
\* selected dependencies of the common group in the common build type and the
\* selected dependencies of the instrumented group in T, and has built nothing in a
\* build type other than common and T.
C8_Original ==
    (pc = "audit" /\ cmdline.build_type # None) =>
        /\ \A d \in SelectedOfGroup(BUILD_GROUP_COMMON) : BuiltIn(d, BUILD_TYPE_COMMON)
        /\ \A d \in SelectedOfGroup(BUILD_GROUP_INSTRUMENTED) :
              BuiltIn(d, cmdline.build_type)
        /\ \A i \in 1..Len(invoked) :
              invoked[i][2] \in {BUILD_TYPE_COMMON, cmdline.build_type}

\* C8: a run with --build-type=T enters no build type other than common and T and
\* builds nothing in another one; when it reaches the audit, the selected
\* dependencies of the common group are built in the common build type; the
\* selected dependencies of the instrumented group are built in T when T is not
\* common and run() makes the call for T on this platform with these flags, and
\* otherwise no instrumented dependency is built at all; a dependency whose stamp is
\* current and whose source directory exists is not built again.
C8_BuildTypeRestriction ==
    /\ [](cmdline.build_type # None =>
            /\ Range(entered) \subseteq {BUILD_TYPE_COMMON, cmdline.build_type}
            /\ \A i \in 1..Len(invoked) :
                  invoked[i][2] \in Range(entered)
            /\ (cmdline.build_type = BUILD_TYPE_COMMON
                    \/ ~PlatformBuilds(cmdline.build_type)) =>
                  \A i \in 1..Len(invoked) : invoked[i][2] = BUILD_TYPE_COMMON
            /\ pc = "audit" =>
                  /\ \A d \in SelectedOfGroup(BUILD_GROUP_COMMON) :
                        BuiltIn(d, BUILD_TYPE_COMMON)
                  /\ (cmdline.build_type # BUILD_TYPE_COMMON
                         /\ PlatformBuilds(cmdline.build_type)) =>
                        \A d \in SelectedOfGroup(BUILD_GROUP_INSTRUMENTED) :
                            BuiltIn(d, cmdline.build_type))
    /\ [][(NextIsCall /\ last'.same_stamp /\ last'.had_src) => invoked' = invoked]_vars

\* A run with --build-type=asan of all three dependencies reaches the audit having
\* built the two instrumented ones in asan and nothing else: the common one was
\* current.
C8_Witness ==
    /\ pc = "audit"
    /\ cmdline.build_type = BUILD_TYPE_ASAN
    /\ SelectedByCommandLine = DepNames
    /\ entered = << BUILD_TYPE_COMMON, BUILD_TYPE_ASAN >>
    /\ invoked = << << "abseil", BUILD_TYPE_ASAN >>, << "tcmalloc", BUILD_TYPE_ASAN >> >>

\* C9 as written: a run that reaches the audit has entered common and
\* clang_uninstrumented; it has entered uninstrumented, asan and tsan only on Linux,
\* and asan and tsan only without --skip-sanitizers.
C9_Original ==
    pc = "audit" =>
        /\ BUILD_TYPE_COMMON \in Range(entered)
        /\ BUILD_TYPE_CLANG_UNINSTRUMENTED \in Range(entered)
        /\ \A bt \in Range(entered) : PlatformBuilds(bt)

\* C9: a build type is entered only if run() makes its call on this platform with
\* these flags (uninstrumented, asan and tsan only on Linux; asan and tsan only
\* without --skip-sanitizers); a run that reaches the audit has entered common, and
\* has entered each other build type exactly when run() makes its call and
\* --build-type is not given or names it.
C9_EnteredBuildTypes ==
    /\ \A bt \in Range(entered) : PlatformBuilds(bt)
    /\ pc = "audit" =>
          \A bt \in BuildTypeSet :
              bt \in Range(entered) <=>
                  \/ bt = BUILD_TYPE_COMMON
                  \/ /\ PlatformBuilds(bt)
                     /\ cmdline.build_type \in {None, bt}

\* A run on macOS without --build-type reaches the audit having entered common and
\* clang_uninstrumented and no other build type.
C9_Witness ==
    /\ pc = "audit"
    /\ platform = "mac"
    /\ cmdline.build_type = None
    /\ ~cmdline.skip_sanitizers
    /\ entered = << BUILD_TYPE_COMMON, BUILD_TYPE_CLANG_UNINSTRUMENTED >>

\* C10: when the patchlevel file of the dependency's source directory exists,
\* download_dependency does nothing: it removes, downloads, extracts and patches
\* nothing, writes no patchlevel file, and leaves the source directory and the
\* archive as they are.
C10_PatchlevelNoOp ==
    [][(NextIsCall /\ last'.rebuild = "yes" /\ patchlevel_file[last'.dep]) =>
          /\ ~last'.did.removed
          /\ ~last'.did.fetched
          /\ ~last'.did.extracted
          /\ ~last'.did.patched
          /\ ~last'.did.marked
          /\ src_dir'[last'.dep] = src_dir[last'.dep]
          /\ patchlevel_file' = patchlevel_file
          /\ archive' = archive
          /\ src_dir' = src_dir]_vars

\* A dependency already fetched for one build type is rebuilt in another one: the
\* patchlevel file is there, and the call goes on to the build without a download.
C10_Witness ==
    /\ IsCall
    /\ last.rebuild = "yes"
    /\ last.had_patchlevel /\ last.had_src
    /\ ~last.had_stamp
    /\ last.result = "built"
    /\ ~last.did.removed /\ ~last.did.fetched

\* What an event is, without the content it was about.
Kind(e) == IF Len(e) >= 2 THEN << e[1], e[2] >> ELSE e
Kinds(events) == [i \in 1..Len(events) |-> Kind(events[i])]

\* The steps of a pass for the extra downloads and the patches of the dependency.
ExtrasAndPatches ==
    LET extra(k) == IF k % 2 = 1
                    THEN << "verified", extra_archive((k + 1) \div 2) >>
                    ELSE << "extract", extra_archive(k \div 2) >>
    IN  [k \in 1..(2 * dep_desc.extra_downloads) |-> extra(k)]
        \o [j \in 1..dep_desc.patches |-> << "patch", j >>]
        \o << << "patchlevel" >> >>

\* A pass that removes the source directory, then verifies and extracts the archive.
PassWithArchive ==
    << << "remove_src" >>, << "verified", ARCHIVE >>, << "extract", ARCHIVE >> >>
    \o ExtrasAndPatches

\* A pass that removes the source directory and makes an empty one.
PassWithMkdir == << << "remove_src" >>, << "mkdir" >> >> \o ExtrasAndPatches

\* Every patch of these events was applied with exit code 0, and every file
\* extracted had, when verified, the content that was then extracted.
CleanPass(events) ==
    \A i \in 1..Len(events) :
        /\ events[i][1] = "patch" => events[i][3] = 0
        /\ events[i][1] = "extract" =>
              /\ i > 1
              /\ events[i - 1] = << "verified", events[i][2], events[i][3] >>

\* A patch exits with another code than 0: the pass ends there, with no patchlevel
\* file, and nothing more is done to the source directory in this run.
PatchFailureIsFatal ==
    /\ [][(pass_events' # pass_events /\ pass_events' # << >>
             /\ pass_events'[Len(pass_events')][1] = "patch"
             /\ pass_events'[Len(pass_events')][3] # 0) =>
            (fpc' = "failed" /\ src_tree' = src_tree /\ ~src_tree.patchlevel)]_vars
    /\ [][fpc = "failed" => (fpc' = "idle" /\ UNCHANGED << src_tree, download_dir >>)]_vars

\* C11 as written: the patchlevel file is written only at the end of a pass of
\* download_dependency that removed the source directory, verified the checksum of
\* the archive and extracted it, fetched and extracted every extra download, and
\* applied every patch in order with exit code 0; a failing patch ends the run.
C11_Original ==
    /\ [][(src_tree'.patchlevel /\ ~src_tree.patchlevel) =>
            (Kinds(pass_events') = PassWithArchive /\ CleanPass(pass_events'))]_vars
    /\ PatchFailureIsFatal

\* C11: the patchlevel file is written only at the end of a pass of
\* download_dependency that removed the source directory, then verified the checksum
\* of the archive and extracted it (or, for a dependency whose URL is 'mkdir', made
\* an empty source directory instead), verified and extracted every extra download,
\* and applied every patch in order with exit code 0; the patchlevel file stays
\* until the source directory is removed; a failing patch ends the run at once, with
\* no later patch applied and no patchlevel file written.
C11_PatchlevelAfterWholePass ==
    /\ [][(src_tree'.patchlevel /\ ~src_tree.patchlevel) =>
            /\ Kinds(pass_events') =
                  IF dep_desc.url = "mkdir" THEN PassWithMkdir ELSE PassWithArchive
            /\ CleanPass(pass_events')
            /\ src_tree'.exists
            /\ src_tree'.patches = [j \in 1..dep_desc.patches |-> j]
            /\ src_tree'.extras = 1..dep_desc.extra_downloads]_vars
    /\ [](fpc \in {"failed", "ensure", "fetch", "fetched", "extract", "extract_extra",
                   "extras", "patches", "mark"} => ~src_tree.patchlevel)
    /\ PatchFailureIsFatal

\* The patchlevel file of a dependency with an archive, an extra download and two
\* patches has just been written.
C11_Witness ==
    /\ fpc = "returned"
    /\ src_tree.patchlevel
    /\ dep_desc.url = "url"
    /\ dep_desc.extra_downloads = 1
    /\ dep_desc.patches = 2
    /\ Kinds(pass_events) = PassWithArchive

\* The fetches (curl invocations) among the events of a call, and the successful
\* ones.
Curls(events) == { i \in 1..Len(events) : events[i][1] = "curl" }
CurlsOK(events) == { i \in Curls(events) : events[i][3] }

\* C12: when ensure_file_downloaded is called for a file right after a call for the
\* same file has returned, the second call returns without a fetch and leaves the
\* file, the checksum file and the checksums on record as they are: the file is the
\* one the first call left, whose checksum is the one on record.
C12_SecondCallFetchesNothing ==
    /\ [][(fpc = "ensure" /\ call.again) =>
            /\ fpc' = after_ensure(call.filename)
            /\ download_dir' = download_dir
            /\ manifest' = manifest
            /\ Curls(call'.events) = {}
            /\ returned(call')]_vars
    /\ []((fpc = "ensure" /\ call.again) =>
            /\ call.entry = download_dir[call.filename]
            /\ call.entry # Absent
            /\ compute_file_sha256(call.entry) = filename2checksum[call.filename])

\* The second of two calls in a row has returned: the first one fetched the archive,
\* and a patch failed after it, so that the next run called again.
C12_Witness ==
    /\ fpc = "extract"
    /\ call.again
    /\ returned(call)
    /\ download_dir[ARCHIVE] = Genuine

\* The file of the call is there, with a checksum that is not the one on record.
WrongFilePresent ==
    /\ download_dir[call.filename] # Absent
    /\ filename2checksum[call.filename] # NoValue
    /\ compute_file_sha256(download_dir[call.filename]) # filename2checksum[call.filename]

Removed(events) == \E i \in 1..Len(events) : events[i] = << "remove" >>

\* C13: when ensure_file_downloaded finds a file whose checksum is not the one on
\* record, it removes the file and goes to the fetch loop; and when such a call
\* returns, exactly one fetch of it succeeded, the last one, and after it the fetched
\* file was compared with the checksum on record and found to have it.
C13_WrongFileRefetched ==
    /\ [][(fpc = "ensure" /\ WrongFilePresent) =>
            /\ fpc' = "fetch"
            /\ download_dir'[call.filename] = Absent
            /\ Removed(call'.events)
            /\ Curls(call'.events) = {}]_vars
    /\ []((Removed(call.events) /\ returned(call)) =>
            LET n == Len(call.events) IN
            /\ Cardinality(CurlsOK(call.events)) = 1
            /\ n >= 4
            /\ CurlsOK(call.events) = { n - 2 }
            /\ call.events[n - 1] = << "lookup", TRUE >>
            /\ \A i \in Curls(call.events) : \E j \in 1..(i - 1) : call.events[j] = << "remove" >>)
    /\ []((Removed(call.events) /\ returned(call) /\ fpc \in { "extract", "extract_extra" }) =>
            /\ download_dir[call.filename] # Absent
            /\ download_dir[call.filename] # call.entry
            /\ compute_file_sha256(download_dir[call.filename])
                   = filename2checksum[call.filename])

\* A part of a file left by a failed fetch was found by the next run, removed and
\* fetched again, after one failed attempt.
C13_Witness ==
    /\ fpc = "extract"
    /\ call.entry = MaxBlob
    /\ Removed(call.events)
    /\ returned(call)
    /\ call.attempt_index = 2
    /\ download_dir[ARCHIVE] = Genuine

\* The time slept after the k-th failed attempt, as the claim gives it.
SleepAfter(k) ==
    INITIAL_DOWNLOAD_RETRY_SLEEP_TIME_SEC + (k - 1) * DOWNLOAD_RETRY_SLEEP_INCREASE_SEC

\* The fetch attempts among the events of a call, in order.
AttemptsOf(events) == SelectSeq(events, LAMBDA e : e[1] = "curl")

\* C14: the fetch loop ends within MAX_FETCH_ATTEMPTS attempts. The attempts of a call
\* are numbered 1, 2, ... up to at most MAX_FETCH_ATTEMPTS; no attempt follows a
\* successful one; the k-th failed attempt, k < MAX_FETCH_ATTEMPTS, is followed at once
\* by a sleep of SleepAfter(k); and the failed attempt number MAX_FETCH_ATTEMPTS is the
\* last event of the call, which has then failed: no sleep and no lookup follow it
\* (the record of the call is kept until the next run makes its first call).
C14_FetchLoopBounded ==
    LET events == call.events
        attempts == AttemptsOf(events) IN
    /\ Len(attempts) <= MAX_FETCH_ATTEMPTS
    /\ \A k \in 1..Len(attempts) :
          /\ attempts[k][2] = k
          /\ attempts[k][3] => k = Len(attempts)
    /\ \A i \in Curls(events) :
          /\ (~events[i][3] /\ events[i][2] < MAX_FETCH_ATTEMPTS) =>
                /\ i < Len(events)
                /\ events[i + 1] = << "sleep", SleepAfter(events[i][2]) >>
          /\ (~events[i][3] /\ events[i][2] = MAX_FETCH_ATTEMPTS) =>
                /\ i = Len(events)
                /\ fpc \in { "failed", "idle" }
    /\ \A i \in 1..Len(events) :
          events[i][1] = "sleep" => (i > 1 /\ events[i - 1][1] = "curl" /\ ~events[i - 1][3])
    /\ fpc = "fetch" =>
          /\ call.attempt_index = Len(attempts) + 1
          /\ call.attempt_index <= MAX_FETCH_ATTEMPTS

\* The loop gave up after MAX_FETCH_ATTEMPTS failed attempts.
C14_Witness ==
    /\ fpc = "failed"
    /\ Len(AttemptsOf(call.events)) = MAX_FETCH_ATTEMPTS
    /\ call.events[Len(call.events)] = << "curl", MAX_FETCH_ATTEMPTS, FALSE >>
    /\ call.events[Len(call.events) - 1]
           = << "sleep", SleepAfter(MAX_FETCH_ATTEMPTS - 1) >>

\* C15: when the file a successful fetch has written has a checksum other than the
\* one on record, the call fails at once: no other fetch attempt is made and the
\* attempt counter stays as it is, the file is not touched, and nothing is extracted.
\* And every archive extracted in a pass has the checksum on record for its name.
C15_MismatchAfterFetchFatal ==
    /\ [][(fpc = "fetched" /\ WrongFilePresent) =>
            /\ fpc' = "failed"
            /\ Curls(call'.events) = Curls(call.events)
            /\ call'.attempt_index = call.attempt_index
            /\ ~returned(call')
            /\ download_dir' = download_dir
            /\ src_tree' = src_tree
            /\ pass_events' = pass_events]_vars
    /\ [](\A i \in 1..Len(pass_events) :
            pass_events[i][1] = "extract" =>
                compute_file_sha256(pass_events[i][3]) = filename2checksum[pass_events[i][2]])
    /\ []((fpc = "failed" /\ call.events # << >>
             /\ call.events[Len(call.events)] = << "lookup", TRUE >>) =>
            /\ CurlsOK(call.events) = { Len(call.events) - 1 }
            /\ WrongFilePresent)

\* The first fetch attempt of a call succeeded and wrote a file with another checksum
\* than the one on record, and the call failed with one attempt made.
C15_Witness ==
    /\ fpc = "failed"
    /\ call.filename = ARCHIVE
    /\ call.events = << << "curl", 1, TRUE >>, << "lookup", TRUE >> >>
    /\ WrongFilePresent
    /\ ~src_tree.exists

\* No checksum is on record for the file of the call, and none is to be added.
Unresolved ==
    /\ ~dep_desc.add_checksum
    /\ call.filename \in Filenames
    /\ filename2checksum[call.filename] = NoValue

\* C16, as the claim states it: without --add_checksum, no fetch attempt is made in a
\* call for a file that has no checksum on record.
C16_Original == (Unresolved /\ fpc \in { "fetch", "fetched", "failed" }) => Curls(call.events) = {}

\* C16, as the code has it: the checksum is looked up before the fetch only when a file
\* is already there, and then an unresolved name fails the call with no fetch attempt;
\* when no file is there, the fetch loop starts without a lookup, and an unresolved
\* name fails the call at the lookup that follows the successful fetch.  In both cases
\* the call does not return, so that no archive with an unresolved name is extracted.
C16_UnresolvedNeverAccepted ==
    /\ [][(fpc = "ensure" /\ Unresolved /\ download_dir[call.filename] # Absent) =>
            /\ fpc' = "failed"
            /\ Curls(call'.events) = {}
            /\ download_dir' = download_dir]_vars
    /\ [][(fpc = "ensure" /\ download_dir[call.filename] = Absent) =>
            /\ fpc' = "fetch"
            /\ call'.events = << >>
            /\ last_lookup' = NoLookup]_vars
    /\ [][(fpc = "fetched" /\ Unresolved /\ download_dir[call.filename] # Absent) =>
            /\ fpc' = "failed"
            /\ ~returned(call')
            /\ Curls(call'.events) = Curls(call.events)
            /\ UNCHANGED << download_dir, src_tree, pass_events, filename2checksum, manifest >>]_vars
    /\ [](returned(call) => filename2checksum[call.filename] # NoValue)
    /\ [](\A i \in 1..Len(pass_events) :
            pass_events[i][1] = "extract" => filename2checksum[pass_events[i][2]] # NoValue)

\* An archive with no checksum on record was fetched, at the second attempt, and the
\* call failed at the lookup after the fetch.
C16_Witness ==
    /\ Unresolved
    /\ fpc = "failed"
    /\ call.entry = Absent
    /\ call.events = << << "curl", 1, FALSE >>, << "sleep", SleepAfter(1) >>,
                        << "curl", 2, TRUE >>, << "lookup", FALSE >> >>
    /\ download_dir[call.filename] # Absent

\* The step makes a lookup: last_lookup' is the record of it.
LookupMade == last_lookup' # NoLookup

\* C17: a lookup for a file name with no checksum on record fails the run when
\* --add_checksum was not given, with nothing put on record; when it was given, the
\* lookup returns the SHA-256 of the file at hand, having put it on record under the
\* name in filename2checksum and in a new last line of the checksum file.  A lookup
\* for a name with a checksum on record returns that checksum and changes nothing, and
\* what is on record for a name is what a new run loads from the checksum file.
C17_LookupOfUnknownName ==
    /\ [][(LookupMade /\ ~last_lookup'.known) =>
            LET f == last_lookup'.filename
                checksum == compute_file_sha256(download_dir[f]) IN
            IF dep_desc.add_checksum
            THEN /\ last_lookup'.ok
                 /\ download_dir[f] # Absent
                 /\ last_lookup'.checksum = checksum
                 /\ filename2checksum' = [filename2checksum EXCEPT ![f] = checksum]
                 /\ Len(manifest') = Len(manifest) + 1
                 /\ manifest'[Len(manifest')] = entry_line(checksum, f, "")
                 /\ load_expected_checksums(manifest')[f] = checksum
            ELSE /\ ~last_lookup'.ok
                 /\ fpc' = "failed"
                 /\ ~returned(call')
                 /\ UNCHANGED << filename2checksum, manifest >>]_vars
    /\ [][(LookupMade /\ last_lookup'.known) =>
            /\ last_lookup'.ok
            /\ last_lookup'.checksum = filename2checksum[last_lookup'.filename]
            /\ UNCHANGED << filename2checksum, manifest >>]_vars
    /\ [](\A f \in Filenames :
            filename2checksum[f] # NoValue =>
                load_expected_checksums(manifest)[f] = filename2checksum[f])

\* A lookup returned a checksum that an earlier lookup had put on record with
\* --add_checksum.
C17_Witness ==
    /\ dep_desc.add_checksum
    /\ last_lookup # NoLookup
    /\ last_lookup.filename = ARCHIVE
    /\ last_lookup.known
    /\ last_lookup.ok
    /\ manifest = Append([i \in 1..Len(checksum_file(FALSE)) |-> rstrip(checksum_file(FALSE)[i])],
                         entry_line(last_lookup.checksum, ARCHIVE, ""))

\* The lines of the checksum file that are entries for the file name f.
EntriesFor(lines, f) == { i \in 1..Len(lines) : is_entry(lines[i]) /\ lines[i][2] = f }

\* C18: what is on record only grows.  In every step, of a run or from one run to the
\* next, a checksum on record in filename2checksum stays as it is, and every line of
\* the checksum file stays where it is, up to white space at its end; lines are only
\* added at the end, and no file name ever has more than one entry in the file.
C18_RegistryOnlyGrows ==
    /\ [][/\ \A f \in Filenames :
                filename2checksum[f] # NoValue => filename2checksum'[f] = filename2checksum[f]
          /\ Len(manifest') >= Len(manifest)
          /\ \A i \in 1..Len(manifest) : rstrip(manifest'[i]) = rstrip(manifest[i])
          /\ \A i \in (Len(manifest) + 1)..Len(manifest') :
                /\ is_entry(manifest'[i])
                /\ filename2checksum[manifest'[i][2]] = NoValue
                /\ filename2checksum'[manifest'[i][2]] = manifest'[i][1]]_vars
    /\ [](\A f \in Filenames : Cardinality(EntriesFor(manifest, f)) <= 1)

\* A lookup has just added the entry of the archive after the lines that were in the
\* checksum file.
C18_Witness ==
    /\ last_lookup # NoLookup
    /\ ~last_lookup.known
    /\ last_lookup.ok
    /\ Len(manifest) = Len(checksum_file(FALSE)) + 1
    /\ EntriesFor(manifest, ARCHIVE) = { Len(manifest) }
    /\ EntriesFor(manifest, OTHER_ARCHIVE) = { 2 }
    /\ filename2checksum[OTHER_ARCHIVE] = compute_file_sha256(Genuine)

\* The call has unpacked the archive, and has ended.
Unpacked == \E i \in 1..Len(xevents) : xevents[i] = "unpack"
Ended == xpc = "done"

\* The number of entries at the top level of the archive, of any name.
TopLevelEntries == xin.dirs + xin.files + (IF xin.hidden THEN 1 ELSE 0)

\* C19, as the claim states it: a call that has unpacked the archive returns when the
\* archive has one entry at its top level, a directory, and else ends with the format
\* error and has moved nothing to the destination.
C19_Original ==
    (Ended /\ Unpacked) =>
        IF TopLevelEntries = 1 /\ xin.dirs = 1
        THEN xresult = "return"
        ELSE xresult = "IOError_format" /\ out_path # "moved"

\* C19, as the code has it: the entries whose names start with '.' do not count.  A
\* call that has unpacked the archive returns when there is one entry of another name
\* and it is a directory, which is then at the destination (moved there, or there
\* before when out_name was not given); else the call ends with the format error and
\* moves nothing.  A call that returns has either done this or, given out_name, found
\* the destination there and unpacked nothing.
C19_OneVisibleDirectory ==
    /\ (Ended /\ Unpacked) =>
          IF xin.dirs = 1 /\ xin.files = 0
          THEN /\ xresult = "return"
               /\ \/ out_path = "moved"
                  \/ ~xin.out_name /\ out_path = "old"
          ELSE /\ xresult = "IOError_format"
               /\ out_path # "moved"
    /\ out_path = "moved" => (Unpacked /\ xin.dirs = 1 /\ xin.files = 0)
    /\ (Ended /\ xresult = "return") =>
          \/ Unpacked /\ xin.dirs = 1 /\ xin.files = 0
          \/ xin.out_name /\ out_path = "old" /\ xevents = << >>
    /\ (Ended /\ xresult # "return") => out_path # "moved"

\* An archive with one directory and entries whose names start with '.' at its top
\* level was unpacked, and the directory moved to the destination.
C19_Witness ==
    /\ Ended
    /\ xin.hidden
    /\ xin.dirs = 1
    /\ xin.files = 0
    /\ xresult = "return"
    /\ out_path = "moved"
    /\ xevents = << "makedirs", "unpack", "move", "rmtree" >>

\* C20, as the claim states it: when a call that has made the temporary directory
\* has ended, in whatever way, the temporary directory is not there.
C20_TmpDirRemoved ==
    (Ended /\ xevents # << >> /\ xevents[1] = "makedirs") => tmp_out_dir = "none"

\* C21, as the claim states it: when a call that has unpacked an archive with the one
\* directory D returns, what was unpacked is at out_name in out_dir when out_name was
\* given, and at D when it was not.
C21_Original ==
    (Ended /\ xresult = "return" /\ Unpacked) =>
        out_dir[IF xin.out_name THEN OUT_NAME ELSE xin.subdir] = "moved"

\* C21, as the code has it: the same, unless out_name was not given and D was in
\* out_dir before the call, which is then left as it was while the call returns.  No
\* step changes what out_dir has under another name than that of the destination, what
\* is there before is never replaced, and the temporary directory is gone when the call
\* returns.
C21_ExtractedAtDestination ==
    /\ []((Ended /\ xresult = "return" /\ Unpacked) =>
            /\ xin.out_name => out_dir[OUT_NAME] = "moved"
            /\ ~xin.out_name => out_dir[xin.subdir] \in { "moved", "old" }
            /\ (~xin.out_name /\ out_dir[xin.subdir] = "old") =>
                  \A i \in 1..Len(xevents) : xevents[i] # "move"
            /\ tmp_out_dir = "none")
    /\ [][\A n \in EntryNames :
            /\ out_dir'[n] # out_dir[n] =>
                  /\ n = (IF xin.out_name THEN OUT_NAME ELSE xin.subdir)
                  /\ out_dir[n] = "none"
                  /\ out_dir'[n] = "moved"
                  /\ xresult' = "return"]_vars

\* An archive with the directory foo-1.0 was unpacked and moved to foo, the out_name,
\* while out_dir has under foo-1.0 what it had before.
C21_Witness ==
    /\ Ended
    /\ xresult = "return"
    /\ xin.out_name
    /\ xin.subdir = "foo-1.0"
    /\ out_dir = [n \in EntryNames |-> IF n = OUT_NAME THEN "moved" ELSE "old"]
    /\ tmp_out_dir = "none"

\* The names of the registry, and what the command line names.
RegistryNames == { "openssl", "abseil", "tcmalloc" }
Listed == { cmdline.dependencies[i] : i \in 1..Len(cmdline.dependencies) }
Skipped == { cmdline.skip[i] : i \in 1..Len(cmdline.skip) }

\* The command line gives a list of dependencies and --skip, or names in one of them
\* a dependency that is not in the registry.
Rejected ==
    \/ cmdline.dependencies # << >> /\ cmdline.skip # << >>
    \/ ~(Listed \subseteq RegistryNames)
    \/ ~(Skipped \subseteq RegistryNames)

\* Nothing was fetched, built or marked as built.
NothingTouched ==
    /\ \A d \in RegistryNames : archive[d] = "absent" /\ ~src_dir[d] /\ ~patchlevel_file[d]
    /\ \A k \in DOMAIN build_dir : ~build_dir[k]
    /\ \A k \in DOMAIN stamp_file : stamp_file[k] = NoValue

\* C22: a run with such a command line ends in init with an error: no build type is
\* entered, build_dependency and download_dependency are not called, and nothing is
\* fetched or built.
C22_InitRejects ==
    /\ [][(pc = "main" /\ Rejected) => (pc' = "failed" /\ error' = "init")]_vars
    /\ [](Rejected =>
            /\ pc \in { "main", "failed" }
            /\ entered = << >>
            /\ invoked = << >>
            /\ NothingTouched)

\* Init has ended with an error for a --skip that names no registered dependency.
C22_Witness ==
    /\ pc = "failed"
    /\ error = "init"
    /\ cmdline.dependencies = << >>
    /\ cmdline.skip = << "nosuch" >>
    /\ entered = << >>

\* The registry, in its order.
RegistryOrder == << "openssl", "abseil", "tcmalloc" >>
RegistryPosition(d) == CHOOSE i \in 1..Len(RegistryOrder) : RegistryOrder[i] = d

\* C23: when init has succeeded, the selection holds names of the registry in strictly
\* growing registry position (so none twice), and they are: with a list of dependencies,
\* the registered names in the list; with --skip, the registered names not in the skip
\* list; with neither, all the names of the registry.
C23_SelectionInRegistryOrder ==
    pc = "run" =>
        LET sel == selected_dependencies IN
        /\ \A i \in 1..Len(sel) : sel[i] \in RegistryNames
        /\ \A i, j \in 1..Len(sel) :
              i < j => RegistryPosition(sel[i]) < RegistryPosition(sel[j])
        /\ { sel[i] : i \in 1..Len(sel) } =
              IF cmdline.dependencies # << >> THEN RegistryNames \cap Listed
              ELSE IF cmdline.skip # << >> THEN RegistryNames \ Skipped
              ELSE RegistryNames

\* The list names two dependencies against the order of the registry, and the
\* selection has them in the order of the registry.
C23_Witness ==
    /\ pc = "run"
    /\ cmdline.dependencies = << "tcmalloc", "openssl" >>
    /\ selected_dependencies = << "openssl", "tcmalloc" >>

\* The lines of the output at hand that neither the patterns of the platform nor the
\* pattern given in addition match.
BadLines(pattern) ==
    { i \in 1..Len(lin.cmdout) :
        /\ ~okay_paths_match(platform, lin.cmdout[i])
        /\ ~(pattern = LIBCXX_NOT_FOUND /\ lin.cmdout[i] = LIBCXX_NOT_FOUND_LINE) }

\* C24: check_lib_deps returns False exactly when there is such a line in the output,
\* with and without an additional pattern; an output with no line passes.  So good_libs
\* of LibTestLinux, when ldd exits with 0 or 1, finds the file bad exactly then.
C24_CheckLibDeps ==
    lpc = "done" =>
        /\ \A pattern \in { None, LIBCXX_NOT_FOUND } :
              check_lib_deps(platform, lin.cmdout, pattern) <=> (BadLines(pattern) = {})
        /\ check_lib_deps(platform, << >>, None)
        /\ (platform = "linux" /\ lin.returncode <= 1) =>
              (lresult = "bad" <=>
                  BadLines(additional_allowed_pattern(lin.module, lin.file_basename)) # {})

\* ldd printed a line that no pattern matches and then one that a pattern matches, and
\* the file was found bad.
C24_Witness ==
    /\ lpc = "done"
    /\ platform = "linux"
    /\ lin.returncode = 0
    /\ lin.cmdout = << HOME_LINE, LIB64_LINE >>
    /\ lresult = "bad"

\* The file at hand is a libc++abi library.
IsLibcxxabi == lin.file_basename = "libc++abi.so.1.0"
HasLine(line) == \E i \in 1..Len(lin.cmdout) : lin.cmdout[i] = line

\* C26: on Linux, a file that is not a libc++abi library and for which ldd prints the
\* line 'libc++.so.1 => not found' is bad; a libc++abi library for which ldd prints
\* another line that no pattern of the list matches, such as another 'not found' line,
\* is bad; and, with the classes of shared_library_checking.py, a libc++abi library
\* for which ldd exits with 0 or 1 and prints that line and lines that the list matches
\* is good.
C26_LibcxxNotFound ==
    (lpc = "done" /\ platform = "linux") =>
        /\ (~IsLibcxxabi /\ HasLine(LIBCXX_NOT_FOUND_LINE)) => lresult = "bad"
        /\ (IsLibcxxabi /\ \E i \in 1..Len(lin.cmdout) :
                              /\ lin.cmdout[i] # LIBCXX_NOT_FOUND_LINE
                              /\ lin.cmdout[i] \notin { VDSO_LINE, LIB64_LINE })
              => lresult = "bad"
        /\ (IsLibcxxabi /\ lin.module = "shared_library_checking" /\ lin.returncode <= 1
              /\ \A i \in 1..Len(lin.cmdout) :
                    lin.cmdout[i] \in { LIBCXX_NOT_FOUND_LINE, VDSO_LINE, LIB64_LINE })
              => lresult = "good"

\* A libc++abi library with the line, which is good, with the classes of
\* shared_library_checking.py.
C26_Witness ==
    /\ lpc = "done"
    /\ platform = "linux"
    /\ IsLibcxxabi
    /\ lin.module = "shared_library_checking"
    /\ lin.cmdout = << LIB64_LINE, LIBCXX_NOT_FOUND_LINE >>
    /\ lresult = "good"

\* The files that the claim has the audit inspect: regular files under the lib, libcxx,
\* bin and sbin subdirectories of the installed directories.
FilesToAudit ==
    { f \in installed_files : f.dir \in { "lib", "libcxx", "bin", "sbin" } /\ ~f.islink }

FoundBad(f) == good_libs(platform, f.lib) # "good"

\* C25, as the claim states it: when the audit has ended, good_libs has been called for
\* every one of these files, and the audit has ended with fatal() exactly when one of
\* them is bad.
C25_FullSweep ==
    apc = "done" =>
        /\ FilesToAudit \subseteq inspected
        /\ aresult = "fatal" <=> (\E f \in FilesToAudit : FoundBad(f))

---------------------------------------------------------------------------
(* The choice of the compilers: claims                                     *)

ClangVariants == { BUILD_TYPE_ASAN, BUILD_TYPE_TSAN, BUILD_TYPE_CLANG_UNINSTRUMENTED }

\* set_build_type has just returned for the build type ccall.arg.
VariantEntered == ccall.op = "set_build_type" /\ ccall.result = "ok"

\* The compilers of the family are the ones in use: compiler_type, and the programs
\* that cc and cxx name.
Activated(family) ==
    /\ compiler_type = family
    /\ cc.name = (IF family = "clang" THEN "clang" ELSE "gcc")
    /\ cxx.name = (IF family = "clang" THEN "clang++" ELSE "g++")

\* C27 as stated: every variant entered is built with clang when it is ASAN, TSAN or
\* CLANG_UNINSTRUMENTED and with gcc when it is COMMON or UNINSTRUMENTED, except on
\* macOS, where every variant is built with clang.
C27_Original ==
    VariantEntered =>
        Activated(IF is_mac \/ ccall.arg \in ClangVariants THEN "clang" ELSE "gcc")

\* C27: every variant entered is built with clang when macOS or a single compiler type
\* of clang forces clang, otherwise with gcc when a pinned devtoolset or a single
\* compiler type of gcc forces gcc, and otherwise with clang when it is ASAN, TSAN or
\* CLANG_UNINSTRUMENTED and with gcc when it is COMMON or UNINSTRUMENTED.
C27_FamilyOfVariant ==
    VariantEntered =>
        Activated(IF is_mac \/ choice.single_compiler_type = "clang"
                  THEN "clang"
                  ELSE IF choice.devtoolset # None \/ choice.single_compiler_type = "gcc"
                  THEN "gcc"
                  ELSE IF ccall.arg \in ClangVariants THEN "clang" ELSE "gcc")

\* COMMON has been entered on Linux under a single compiler type of clang.
C27_Witness ==
    /\ VariantEntered
    /\ is_linux
    /\ choice.single_compiler_type = "clang"
    /\ ccall.arg = BUILD_TYPE_COMMON
    /\ compiler_type = "clang"


\* The family is the one that a restriction of CompilerChoice rules out.
OtherFamily(type) ==
    \/ type = "gcc" /\ (choice.single_compiler_type = "clang" \/ is_mac)
    \/ type = "clang" /\ (choice.single_compiler_type = "gcc" \/ choice.devtoolset # None)

\* C28: a call of CompilerChoice.find_compiler_by_type for the family that a
\* restriction rules out (gcc under a single compiler type of clang or on macOS,
\* clang under a single compiler type of gcc or a pinned devtoolset) ends in an error
\* and leaves cc and cxx as they were.
C28_OtherFamilyRefused ==
    [][(/\ choice.module = "compiler_choice"
        /\ ccall'.op = "find_compiler_by_type"
        /\ OtherFamily(ccall'.arg))
       => (/\ ccall'.result = "ValueError"
           /\ cc' = cc
           /\ cxx' = cxx)]_vars

\* The other family was asked for after a pair of compilers had been resolved.
C28_Witness ==
    /\ choice.module = "compiler_choice"
    /\ ccall.op = "find_compiler_by_type"
    /\ OtherFamily(ccall.arg)
    /\ ccall.result = "ValueError"
    /\ cc # NoPath
    /\ cxx # NoPath


\* The compilers that the environment names: CC and CXX, or the real compilers behind
\* the wrapper scripts.
ExportedC ==
    IF choice.use_compiler_wrapper THEN environ.YB_THIRDPARTY_REAL_C_COMPILER ELSE environ.CC
ExportedCXX ==
    IF choice.use_compiler_wrapper
    THEN environ.YB_THIRDPARTY_REAL_CXX_COMPILER
    ELSE environ.CXX

\* The path is there and, under a pinned devtoolset, has its fragment.
Validated(compiler_path) ==
    /\ path_exists(compiler_path)
    /\ choice.devtoolset # None => devtoolset_substring_in(choice.devtoolset, compiler_path)

SetCompilerOps == { "set_compiler", "set_build_type" }

\* C29: CC and CXX are only ever exported for a pair of paths that both exist and,
\* under a pinned devtoolset, both have its fragment; a set_compiler that returns has
\* exported the very pair that the find method of the type gave, and one that ends in
\* an error has left CC and CXX as they were.
C29_OnlyValidatedExported ==
    /\ [](environ.CC # NoPath => Validated(ExportedC) /\ Validated(ExportedCXX))
    /\ [][ccall'.op \in SetCompilerOps =>
            IF ccall'.result = "ok"
            THEN /\ ExportedC' = cc' /\ ExportedCXX' = cxx'
                 /\ environ'.CC # NoPath /\ environ'.CXX # NoPath
                 /\ ccall'.op = "set_compiler" =>
                        /\ cc' = find_compilers(ccall'.arg).cc
                        /\ cxx' = find_compilers(ccall'.arg).cxx
            ELSE /\ environ'.CC = environ.CC /\ environ'.CXX = environ.CXX
                 /\ ExportedC' = ExportedC /\ ExportedCXX' = ExportedCXX]_vars

\* set_compiler has exported the compilers of the pinned devtoolset.
C29_Witness ==
    /\ ccall.op = "set_compiler"
    /\ ccall.result = "ok"
    /\ choice.devtoolset = "8"
    /\ environ.CC = cc
    /\ cc.root = DEVTOOLSET
    /\ environ.CXX = cxx

\* set_compiler has ended in an error for a pair that the devtoolset check refused.
C29_Refused ==
    /\ ccall.op = "set_compiler"
    /\ ccall.result = "ValueError"
    /\ choice.devtoolset = "9"
    /\ cc # NoPath
    /\ environ.CC = NoPath


\* The prefix given for the family: compiler_prefix of CompilerChoice; for Builder,
\* YB_GCC_PREFIX or YB_CLANG_PREFIX.
Override(type) ==
    IF choice.module = "compiler_choice"
    THEN choice.compiler_prefix
    ELSE IF type = "gcc" THEN choice.YB_GCC_PREFIX ELSE choice.YB_CLANG_PREFIX

\* The compilers of the type ccall.arg have just been resolved.
Resolved ==
    /\ ccall.op \in { "find_compiler_by_type", "set_compiler" }
    /\ ccall.result = "ok"

\* Both compilers are in the bin directory of the root.
Under(dir) == cc.root = dir /\ cxx.root = dir

\* The directories that the search of a family looks in.
SearchRoots(type) ==
    IF type = "gcc" THEN { DEVTOOLSET, USR } ELSE { CLANG_TOOLCHAIN, USR }

\* C30 as stated: compilers are resolved under the prefix when one is given, under the
\* Linuxbrew directory only when none is given, and by the search only when there is
\* neither a prefix nor a detected Linuxbrew directory.
C30_Original ==
    Resolved =>
        /\ Override(ccall.arg) # None => Under(Override(ccall.arg))
        /\ Under(LINUXBREW) => Override(ccall.arg) = None
        /\ cc.root \in SearchRoots(ccall.arg) =>
              Override(ccall.arg) = None /\ ~using_linuxbrew

\* C30: compilers are resolved under the prefix when one is given for the family; with
\* none given, gcc is resolved under the Linuxbrew directory when one is detected and
\* on PATH otherwise, and clang in the candidate directories whether or not a
\* Linuxbrew directory is detected.
C30_ResolutionOrder ==
    Resolved =>
        IF Override(ccall.arg) # None
        THEN Under(Override(ccall.arg))
        ELSE IF ccall.arg = "gcc" /\ using_linuxbrew
        THEN Under(LINUXBREW)
        ELSE cc.root \in SearchRoots(ccall.arg) /\ cxx.root \in SearchRoots(ccall.arg)

\* gcc has been resolved under the prefix although a Linuxbrew directory is detected.
C30_Witness ==
    /\ Resolved
    /\ ccall.arg = "gcc"
    /\ Override("gcc") = PREFIX
    /\ using_linuxbrew
    /\ Under(PREFIX)

\* clang has been resolved in a candidate directory although a Linuxbrew directory is
\* detected.
C30_ClangSearched ==
    /\ Resolved
    /\ ccall.arg = "clang"
    /\ Override("clang") = None
    /\ using_linuxbrew
    /\ cc.root \in SearchRoots("clang")


\* C31 as stated: on macOS a call of set_compiler, whatever the type, ends with the
\* clang compilers resolved and in use whenever they can be resolved.
C31_Original ==
    (/\ is_mac
     /\ ccall.op = "set_compiler"
     /\ find_compiler_by_type_outcome("clang").result = "ok")
    => (ccall.result = "ok" /\ Activated("clang"))

\* C31: on macOS set_compiler('clang') ends as find_compiler_by_type('clang') does, with
\* the clang compilers in use when it returns; for any other type it raises ValueError
\* and changes neither compiler_type, cc, cxx nor the environment.
C31_MacOnlyClang ==
    [][(is_mac /\ ccall'.op = "set_compiler") =>
          IF ccall'.arg = "clang"
          THEN /\ ccall'.result = find_compiler_by_type_outcome("clang").result
               /\ ccall'.result = "ok" => Activated("clang")'
          ELSE /\ ccall'.result = "ValueError"
               /\ UNCHANGED << compiler_type, cc, cxx, environ >>]_vars

\* gcc has been asked for on macOS, where clang could have been resolved.
C31_Witness ==
    /\ is_mac
    /\ ccall.op = "set_compiler"
    /\ ccall.arg = "gcc"
    /\ ccall.result = "ValueError"
    /\ find_compiler_by_type_outcome("clang").result = "ok"


---------------------------------------------------------------------------
(* The flags: claims                                                       *)

\* The list of flags has the option.
HasFlag(list, opt) == \E i \in DOMAIN list : list[i].opt = opt

\* The compiler flags exported have the option, for C or for C++.
Exported(opt) == HasFlag(flags_environ.CXXFLAGS, opt) \/ HasFlag(flags_environ.CFLAGS, opt)
\* They have it for both.
ExportedToBoth(opt) ==
    HasFlag(flags_environ.CXXFLAGS, opt) /\ HasFlag(flags_environ.CFLAGS, opt)

\* C32: whenever a dependency is built, the compiler flags exported for it have
\* -fsanitize=address and -fsanitize=undefined exactly when the build type is ASAN and
\* -fsanitize=thread exactly when it is TSAN, so that COMMON, UNINSTRUMENTED and
\* CLANG_UNINSTRUMENTED have no sanitizer flag and no flag of an earlier build type
\* is carried over.
C32_SanitizerFlags ==
    flags_environ.build_type # None =>
        /\ \A opt \in { "-fsanitize=address", "-fsanitize=undefined" } :
              /\ Exported(opt) => flags_environ.build_type = BUILD_TYPE_ASAN
              /\ flags_environ.build_type = BUILD_TYPE_ASAN => ExportedToBoth(opt)
        /\ Exported("-fsanitize=thread") => flags_environ.build_type = BUILD_TYPE_TSAN
        /\ flags_environ.build_type = BUILD_TYPE_TSAN => ExportedToBoth("-fsanitize=thread")

\* A dependency has been built for TSAN, the build type after ASAN, with the flag of
\* TSAN and without those of ASAN.
C32_Witness ==
    /\ flags_environ.build_type = BUILD_TYPE_TSAN
    /\ ExportedToBoth("-fsanitize=thread")
    /\ ~Exported("-fsanitize=address")


---------------------------------------------------------------------------
(* clean(), stamps, idempotent runs: claims                                *)

\* The step is clean(), the first thing that a run with --clean does.
CleanStep == pc = "run" /\ args.clean /\ pc' = "build"

\* C33: after clean(), for every selected dependency, the build directory and the
\* stamp file of every build type, the source directory and the downloaded archive
\* are gone.
C33_CleanRemovesAll ==
    [][CleanStep =>
          \A dep \in Selected :
              /\ \A bt \in BuildTypeSet :
                    /\ ~build_dir'[<< bt, dep >>]
                    /\ stamp_file'[<< bt, dep >>] = NoValue
              /\ ~src_dir'[dep]
              /\ archive'[dep] = "absent"]_vars

\* What clean() does remove: the source directory and the archive of every selected
\* dependency, which is enough for should_rebuild_dependency to return True.
C33_SourcesRemoved ==
    [][CleanStep =>
          \A dep \in Selected : ~src_dir'[dep] /\ archive'[dep] = "absent"]_vars


\* C34: a stamp file changes only in a call of build_dependency that ends built, and
\* only the stamp file of the dependency and the build type of that call, which then
\* holds the stamp just computed; the stamp files of the dependency in the other
\* build types and of the other dependencies are what they were. A call whose own
\* stamp file is absent or holds another stamp goes on to rebuild, whatever the
\* stamp files of the other build types hold.
C34_StampOfPairOnly ==
    /\ [][\A k \in BuildTypeSet \X DepNames :
             stamp_file'[k] # stamp_file[k] =>
                 /\ NextIsCall
                 /\ last'.result = "built"
                 /\ k = << last'.build_type, last'.dep >>
                 /\ stamp_file'[k] = get_build_stamp_for_dependency(git, last'.dep)]_vars
    /\ []((IsCall /\ last.rebuild # None /\ ~last.same_stamp) =>
             (last.rebuild = "yes" /\ last.result # "not_rebuilding"))

\* abseil, stamped in uninstrumented with the stamp of the tracked files as they
\* are, is built in clang_uninstrumented, where it had no stamp file.
C34_Witness ==
    /\ IsCall
    /\ last.dep = "abseil"
    /\ last.build_type = BUILD_TYPE_CLANG_UNINSTRUMENTED
    /\ last.result = "built"
    /\ ~last.had_stamp /\ last.had_src
    /\ stamp_file[<< BUILD_TYPE_UNINSTRUMENTED, "abseil" >>] =
           get_build_stamp_for_dependency(git, "abseil")


---------------------------------------------------------------------------
(* download_dependency and ensure_file_downloaded over several runs: claims *)

\* The pass of download_dependency under way, or the last one, made the source
\* directory instead of extracting an archive.
MkdirPass == Len(pass_events) >= 2 /\ pass_events[2][1] = "mkdir"

\* C35 as written: a pass for a dependency whose URL is 'mkdir' makes the empty
\* source directory and stops; it fetches, verifies and extracts nothing, neither the
\* archive nor an extra download, and applies no patch.
C35_Original ==
    MkdirPass =>
        /\ \A i \in 1..Len(pass_events) :
              pass_events[i][1] \notin {"verified", "extract", "patch"}
        /\ call.events = << >>
        /\ fpc \in {"extras", "patches", "mark", "returned", "idle"}

\* C35: for a dependency whose URL is 'mkdir', a pass that does not find the
\* patchlevel file removes the source directory, makes it anew, empty, and fetches,
\* verifies and extracts no archive of the dependency itself; it then goes on like
\* any other pass: to the extra downloads and the patches, when there are any, and
\* it returns only with the patchlevel file written, every extra download extracted
\* and every patch applied. A pass that finds the patchlevel file returns at once
\* and leaves the source directory as it is.
C35_MkdirInsteadOfArchive ==
    /\ [](MkdirPass =>
            /\ src_tree.exists
            /\ src_tree.main = Absent
            /\ call.filename # ARCHIVE
            /\ \A i \in 1..Len(pass_events) :
                  pass_events[i][1] \in {"verified", "extract"} =>
                      pass_events[i][2] # ARCHIVE
            /\ fpc = "returned" =>
                  /\ src_tree.patchlevel
                  /\ src_tree.extras = 1..dep_desc.extra_downloads
                  /\ src_tree.patches = [j \in 1..dep_desc.patches |-> j])
    /\ [][(fpc = "idle" /\ dep_desc.url = "mkdir") =>
            IF src_tree.patchlevel
            THEN fpc' = "returned" /\ src_tree' = src_tree /\ pass_events' = << >>
            ELSE /\ fpc' = "extras"
                 /\ src_tree' = [NoTree EXCEPT !.exists = TRUE]
                 /\ pass_events' = << << "remove_src" >>, << "mkdir" >> >>]_vars

\* A pass that made the source directory has extracted an extra download into it,
\* applied two patches and written the patchlevel file.
C35_Witness ==
    /\ MkdirPass
    /\ fpc = "returned"
    /\ src_tree.patchlevel
    /\ src_tree.extras = {1}
    /\ Len(src_tree.patches) = 2
    /\ \E i \in 1..Len(pass_events) : pass_events[i][1] = "patch"


\* The file that the step of the sweep has called good_libs for.
JustInspected == CHOOSE f \in inspected' \ inspected : TRUE

\* ldd has exited with a code above 1 for the file.
UnexpectedCode(f) == f.lib.returncode > 1

\* The output of ldd for the file has a line that no pattern allows.
BadPath(f) ==
    ~check_lib_deps("linux", f.lib.cmdout,
                    additional_allowed_pattern(f.lib.module, f.lib.file_basename))

\* C36 as written: on Linux, a file for which ldd exits with a code above 1 ends the
\* audit with the fatal error at that file.
C36_Original ==
    [][(platform = "linux" /\ inspected' # inspected /\ UnexpectedCode(JustInspected)) =>
          (apc' = "done" /\ aresult' = "fatal")]_vars

\* C36: on Linux, a file for which ldd exits with a code above 1 counts as a bad
\* file and its output is not looked at: test_pass becomes False, the sweep goes on
\* to the files that are left, and the audit ends with the fatal error only after the
\* last file; with exit code 0 or 1 the output is checked line by line against the
\* patterns, and the file is bad exactly when a line matches none.
C36_UnexpectedCodeIsBadFile ==
    /\ [][(platform = "linux" /\ inspected' # inspected) =>
             /\ inspected' = inspected \cup { JustInspected }
             /\ apc' = "sweep" /\ aresult' = aresult
             /\ test_pass' = (/\ test_pass
                              /\ ~UnexpectedCode(JustInspected)
                              /\ ~BadPath(JustInspected))]_vars
    /\ []((platform = "linux" /\ apc = "done") =>
             /\ to_examine = {}
             /\ aresult = "fatal" <=>
                   \E f \in inspected : UnexpectedCode(f) \/ BadPath(f))

\* The audit has ended with the fatal error after two files: ldd exited with 2 for
\* one, and with 1 and a line that is allowed for the other.
C36_Witness ==
    /\ platform = "linux"
    /\ apc = "done" /\ aresult = "fatal"
    /\ \E f, g \in inspected :
          /\ inspected = { f, g }
          /\ f.lib.returncode = 2
          /\ g.lib.returncode = 1 /\ g.lib.cmdout = << LIB64_LINE >>

\* ldd exits with 1 for the only file, whose lines are allowed: the audit passes.
C36_Tolerated ==
    /\ platform = "linux"
    /\ apc = "done" /\ aresult = "passed"
    /\ \E g \in inspected : g.lib.returncode = 1


\* ensure_file_downloaded is entered and finds, at the path, a file that is not what
\* the server holds (a part of a file, or a damaged one) and whose checksum is not
\* the one on record for its name: no call has accepted it. Such a file is what a
\* fetch leaves that curl did not complete.
FindsUnacceptedFile ==
    /\ fpc = "ensure"
    /\ download_dir[call.filename] \notin { Absent, Genuine }
    /\ filename2checksum[call.filename] # compute_file_sha256(download_dir[call.filename])

\* The call goes on to fetch the file anew, the old one removed, or ends the run.
RemovedOrFailed ==
    \/ fpc' = "failed"
    \/ fpc' = "fetch" /\ download_dir'[call.filename] = Absent

\* C37, as the claim states it: with or without --add_checksum, a file that an
\* interrupted fetch has left at the path is never accepted by a later call of
\* ensure_file_downloaded: the call removes it and fetches again, or the run fails.
C37_PartialFileNeverAccepted ==
    [][FindsUnacceptedFile => RemovedOrFailed]_vars

\* What holds: the same, for a call without --add_checksum or for a file whose name
\* has a checksum on record.
C37_SafeWithChecksumOnRecord ==
    [][(/\ FindsUnacceptedFile
        /\ ~dep_desc.add_checksum \/ filename2checksum[call.filename] # NoValue) =>
          RemovedOrFailed]_vars

\* With --add_checksum, a file found at the path without a checksum on record is
\* one that a failed fetch has left.
C37_LeftByFailedFetch ==
    (/\ fpc = "ensure"
     /\ dep_desc.add_checksum
     /\ download_dir[call.filename] # Absent
     /\ filename2checksum[call.filename] = NoValue) =>
        download_dir[call.filename] = MaxBlob


\* The patches that the pass under way, or the last one, has applied with exit code 0.
AppliedInPass ==
    LET applied == SelectSeq(pass_events, LAMBDA e : e[1] = "patch" /\ e[3] = 0)
    IN  [i \in 1..Len(applied) |-> applied[i][2]]

\* The source directory is one that this pass has made: the pass began by removing
\* the old one, and then extracted the archive, or made an empty directory for a
\* dependency whose URL is 'mkdir'.
MadeInThisPass ==
    /\ pass_events # << >>
    /\ pass_events[1] = << "remove_src" >>
    /\ src_tree.exists
    /\ IF dep_desc.url = "mkdir"
       THEN pass_events[2] = << "mkdir" >> /\ src_tree.main = Absent
       ELSE \E i \in 1..Len(pass_events) :
               pass_events[i] = << "extract", ARCHIVE, src_tree.main >>

\* C38: over any sequence of runs, with passes that end in an error at the
\* download, the extraction or a patch, a patch is applied only to a source
\* directory that the same pass has made anew, after removing the old one, and that
\* holds no patch of an earlier pass: the patches in a source directory without
\* patchlevel file are the ones that the last pass applied, and the patches in any
\* source directory are the first declared ones, in order, each once.
C38_PatchesOnFreshTree ==
    /\ [](~src_tree.patchlevel => src_tree.patches = AppliedInPass)
    /\ [](/\ Len(src_tree.patches) <= dep_desc.patches
          /\ src_tree.patches = [j \in 1..Len(src_tree.patches) |-> j])
    /\ [][(src_tree'.patches # src_tree.patches /\ src_tree'.patches # << >>) =>
             /\ MadeInThisPass
             /\ ~src_tree.patchlevel
             /\ src_tree'.patches = Append(src_tree.patches, Len(src_tree.patches) + 1)]_vars

\* Both patches are applied in a pass that found the archive in the download
\* directory: an earlier pass had fetched it and ended in an error afterwards.
C38_Witness ==
    /\ fpc \in { "patches", "mark" }
    /\ dep_desc.extra_downloads = 0
    /\ call.filename = ARCHIVE /\ call.entry = Genuine
    /\ Curls(call.events) = {}
    /\ src_tree.patches = << 1, 2 >>


\* The calls of build_dependency that a run makes on this machine: the build types
\* that run() and build() enter with these options, and, in each, the selected
\* dependencies of its group.
CallsOfRun ==
    { k \in BuildTypeSet \X SelectedByCommandLine :
        /\ PlatformBuilds(k[1])
        /\ k[1] = BUILD_TYPE_COMMON \/ cmdline.build_type \in { None, k[1] }
        /\ builds_in(k[2], k[1]) }

\* Every one of them finds the stamp of the tracked files as they are, and the
\* source directory.
AllCurrent == \A k \in CallsOfRun : BuiltIn(k[2], k[1]) /\ src_dir[k[2]]

\* C39: a run that gets through all its builds leaves, for every build_dependency
\* call that a run with the same options makes, the stamp of the tracked files as
\* they are and the source directory; and from there on, as long as no tracked file
\* and nothing of the version-control state changes and no run is given --clean, no
\* step of a run calls a dependency's build(), downloads, extracts or patches, or
\* writes a stamp file: every build_dependency call returns without rebuilding (or
\* ends in an error before it has done anything).
C39_Idempotent ==
    /\ [](pc \in { "audit", "done" } => AllCurrent)
    /\ [][(AllCurrent /\ git' = git /\ ~CleanStep) =>
             /\ UNCHANGED fs_vars
             /\ Len(invoked') <= Len(invoked)
             /\ saved_git' = saved_git
             /\ NextIsCall =>
                   /\ last'.result # "built"
                   /\ last'.did = NoValue
                   /\ ~last'.adapter]_vars

\* A run without --clean has come to its end having made three or more calls of
\* build_dependency, none of which has built anything.
C39_Witness ==
    /\ pc = "done"
    /\ ~args.clean
    /\ Cardinality(CallsOfRun) >= 3
    /\ invoked = << >>
    /\ \A k \in CallsOfRun : stamp_file[k] # NoValue


---------------------------------------------------------------------------
(* building_with_clang against find_compiler_by_type: claims               *)

\* The compiler type that set_build_type asks set_compiler for in build type bt.
FamilySelected(bt) == IF CompilerChoice_building_with_clang(bt) THEN "clang" ELSE "gcc"

\* Both restrictions are in force: clang only (macOS, or a single compiler type of
\* clang) and gcc only (a pinned devtoolset, or a single compiler type of gcc).
RestrictionsConflict == use_only_clang /\ use_only_gcc

\* set_build_type of CompilerChoice has been called for the build type ccall.arg.
CompilerChoice_set_build_type_called ==
    choice.module = "compiler_choice" /\ ccall.op = "set_build_type"

\* C40 as written: whatever the single compiler type, the devtoolset and the
\* platform, the compiler type that building_with_clang selects for a build type is
\* one that find_compiler_by_type allows.
C40_Original ==
    CompilerChoice_set_build_type_called => ~not_allowed(FamilySelected(ccall.arg))

\* C40: the compiler type that building_with_clang selects for a build type is one
\* that find_compiler_by_type allows, unless both restrictions are in force (macOS or
\* a single compiler type of clang, together with a pinned devtoolset or a single
\* compiler type of gcc): then building_with_clang selects clang for every build
\* type, find_compiler_by_type refuses clang, and set_build_type ends in that error.
C40_AllowedUnlessConflict ==
    CompilerChoice_set_build_type_called =>
        IF RestrictionsConflict
        THEN /\ FamilySelected(ccall.arg) = "clang"
             /\ not_allowed("clang")
             /\ ccall.result = "ValueError"
        ELSE ~not_allowed(FamilySelected(ccall.arg))

\* ASAN has been entered with gcc under a single compiler type of gcc.
C40_Witness ==
    /\ CompilerChoice_set_build_type_called
    /\ is_linux
    /\ choice.single_compiler_type = "gcc"
    /\ ccall.arg = BUILD_TYPE_ASAN
    /\ ccall.result = "ok"
    /\ compiler_type = "gcc"

\* set_build_type has ended in the error under a single compiler type of clang with
\* a pinned devtoolset.
C40_Conflict ==
    /\ CompilerChoice_set_build_type_called
    /\ is_linux
    /\ choice.single_compiler_type = "clang"
    /\ choice.devtoolset # None
    /\ ccall.result = "ValueError"

=============================================================================
